---- MODULE Spec2Model ----
(***************************************************************************)
(* A model of jtclarkjr/router-go: the router (route registry, middleware  *)
(* chain, sub-routers, ServeHTTP), the Throttle middleware and the         *)
(* RateLimiter middleware.                                                 *)
(*                                                                         *)
(* Several specifications share the module:                                *)
(*   SpecThrottle  requests passing through one Throttle(limit) value      *)
(*   SpecRate      requests passing through RateLimiter-wrapped routes     *)
(*   SpecChain     router configuration with middlewares (Use, Handle,     *)
(*                 Route) and ServeHTTP                                    *)
(*   SpecMatch     route registration (Handle, Route) and ServeHTTP over   *)
(*                 several templates, methods and request paths            *)
(*   SpecThrottleLive  SpecThrottle on a server that keeps receiving       *)
(*                 requests, under fair scheduling                         *)
(*   SpecCors      requests passing through one CORS(config) middleware    *)
(*   SpecTemplate  one template compiled by Handle and its pattern run on  *)
(*                 one path                                                *)
(* Each specification keeps the variables it does not use at their initial *)
(* values.                                                                 *)
(***************************************************************************)
EXTENDS Integers, Sequences, FiniteSets, TLC

VARIABLES
    \* ---- Throttle (src/middleware/cors.go:277-293) ----
    limit,            \* the argument of Throttle(limit): capacity of sem
    sem,              \* number of tokens in the buffered channel sem
    thPc,             \* per request: position in the Throttle handler
    thRoute,          \* per request: the route whose wrapped handler it runs
    \* ---- RateLimiter (src/middleware/rateLimiter.go:10-29) ----
    clock,            \* wall clock read by time.Now(), in units of 100ms
    lastRequestTime,  \* per RateLimiter(next) call: clientIP -> last time
    mu,               \* per RateLimiter(next) call: holder of the mutex
    rlPc,             \* per request: position in the RateLimiter handler
    rlRoute,          \* per request: the route whose wrapped handler it runs
    rlClientIP,       \* per request: r.RemoteAddr
    rlNow,            \* per request: the local variable now
    \* ---- Router (src/unnamed/part_000) ----
    routers,          \* stack of routers: the root and the sub-routers whose
                      \* Route callback is running
    calls,            \* number of Use, Handle and Route calls made so far
    resp,             \* outcome of the ServeHTTP call just made, until it is read
    handleLog,        \* history: for each Handle call, its receiver's
                      \* middleware list at the time of the call
    \* ---- CORS (src/middleware/cors.go:10-268) ----
    corsConfig,       \* the CORSConfig passed to CORS(config)
    corsReq,          \* the request the handler is serving, if any
    corsResp,         \* what the handler did with it: status written, response
                      \* headers, calls of next
    \* ---- one template through Handle and its matcher (part_000:72-91) ----
    tplTemplate,      \* the path argument of Handle
    tplPath,          \* the request path tried against the stored pattern
    tplPc,            \* "template", "compiled" (Handle has stored the Route),
                      \* "matched" (the pattern was run on the path)
    tplRoute,         \* the Route value Handle stored
    tplMatch,         \* the result of FindStringSubmatch: [ok, groups]
    \* ---- EnvVarChecker (src/middleware/envvar.go, src/unnamed/part_001) ----
    envVersion,       \* which of the two EnvVarChecker sources is built
    envVars,          \* the argument list of EnvVarChecker(envVars...)
    environ,          \* the process environment: variable -> value
    envResp,          \* what the handler did: status, body, calls of next
    \* ---- RateLimiter and Throttle on one route ----
    gateOrder         \* which of the two middlewares is the outer one

thVars == <<limit, sem, thPc, thRoute>>
rlVars == <<clock, lastRequestTime, mu, rlPc, rlRoute, rlClientIP, rlNow>>
rtVars == <<routers, calls, resp, handleLog>>
corsVars == <<corsConfig, corsReq, corsResp>>
tplVars == <<tplTemplate, tplPath, tplPc, tplRoute, tplMatch>>
envState == <<envVersion, envVars, environ, envResp>>
vars == <<limit, sem, thPc, thRoute,
          clock, lastRequestTime, mu, rlPc, rlRoute, rlClientIP, rlNow,
          routers, calls, resp, handleLog,
          corsConfig, corsReq, corsResp,
          tplTemplate, tplPath, tplPc, tplRoute, tplMatch,
          envVersion, envVars, environ, envResp, gateOrder>>

(***************************************************************************)
(* Bounds                                                                  *)
(***************************************************************************)
\* number of concurrent requests in the Throttle and RateLimiter models
NumRequests == 3
\* number of routes wrapped by the same middleware value
NumRoutes == 2
\* largest limit passed to Throttle
MaxLimit == 2
\* last clock value (units of 100ms)
MaxClock == 19
\* number of Use calls
MaxUse == 2
\* number of Handle calls
MaxHandle == 2
\* number of Route calls (sub-routers)
MaxSubRouters == 1
\* number of characters of a request path after its leading "/", in the
\* specification of one template
MaxPathLen == 4
MaxEnvVars == 2
MaxGateRequests == 2

Requests == 1..NumRequests
RouteIds == 1..NumRoutes

\* Requests, routes and clients are interchangeable, so arrivals are canonical:
\* requests are numbered in the order they arrive, and a request goes to a
\* route / comes from a client already seen or to the first one not yet seen.
MaxOf(S) == IF S = {} THEN 0 ELSE CHOOSE x \in S : \A y \in S : y <= x

(***************************************************************************)
(* Throttle                                                                *)
(***************************************************************************)

\* sem := make(chan struct{}, limit), once per Throttle(limit) call: the
\* channel is shared by every handler the returned middleware wraps.
ThPcIdle == [r \in Requests |-> "idle"]
ThRouteNone == [r \in Requests |-> 0]

\* mutant: the send succeeds even when the buffer is full
SemCanSendOffByOne(n) == n <= limit

\* a send on the buffered channel proceeds iff the buffer is not full
SemCanSend(n) == n < limit

\* a receive on the channel proceeds iff the buffer is not empty
SemCanRecv(n) == n > 0

\* the server dispatches request r to route rt, all routes being wrapped by the
\* same middleware value
ThArrive(r, rt) ==
    /\ thPc[r] = "idle"
    /\ (IF r = 1 THEN TRUE ELSE thPc[r - 1] # "idle")
    /\ rt <= MaxOf({thRoute[q] : q \in Requests}) + 1
    /\ thPc' = [thPc EXCEPT ![r] = "send"]
    /\ thRoute' = [thRoute EXCEPT ![r] = rt]
    /\ UNCHANGED <<limit, sem, rlVars, rtVars, corsVars, tplVars, envState, gateOrder>>

\* sem <- struct{}{}  : blocks while the buffer is full
ThAcquire(r) ==
    /\ thPc[r] = "send"
    /\ SemCanSend(sem)
    /\ sem' = sem + 1
    /\ thPc' = [thPc EXCEPT ![r] = "next"]
    /\ UNCHANGED <<limit, thRoute, rlVars, rtVars, corsVars, tplVars, envState, gateOrder>>

\* next.ServeHTTP(w, r) returns normally: the deferred function is to run
ThNextReturn(r) ==
    /\ thPc[r] = "next"
    /\ thPc' = [thPc EXCEPT ![r] = "deferReturn"]
    /\ UNCHANGED <<limit, sem, thRoute, rlVars, rtVars, corsVars, tplVars, envState, gateOrder>>

\* mutant: a panic unwinds without running the release
ThNextPanicNoDefer(r) ==
    /\ thPc[r] = "next"
    /\ thPc' = [thPc EXCEPT ![r] = "panicked"]
    /\ UNCHANGED <<limit, sem, thRoute, rlVars, rtVars, corsVars, tplVars, envState, gateOrder>>

\* next.ServeHTTP(w, r) panics: the deferred function runs during unwinding
ThNextPanic(r) ==
    /\ thPc[r] = "next"
    /\ thPc' = [thPc EXCEPT ![r] = "deferPanic"]
    /\ UNCHANGED <<limit, sem, thRoute, rlVars, rtVars, corsVars, tplVars, envState, gateOrder>>

\* mutant: the deferred function does not take the token back
ThReleaseKeepsToken(r) ==
    /\ thPc[r] \in {"deferReturn", "deferPanic"}
    /\ thPc' = [thPc EXCEPT ![r] =
                  IF thPc[r] = "deferReturn" THEN "returned" ELSE "panicked"]
    /\ UNCHANGED <<limit, sem, thRoute, rlVars, rtVars, corsVars, tplVars, envState, gateOrder>>

\* defer func() { <-sem }() ; then the handler returns or the panic goes on
ThRelease(r) ==
    /\ thPc[r] \in {"deferReturn", "deferPanic"}
    /\ SemCanRecv(sem)
    /\ sem' = sem - 1
    /\ thPc' = [thPc EXCEPT ![r] =
                  IF thPc[r] = "deferReturn" THEN "returned" ELSE "panicked"]
    /\ UNCHANGED <<limit, thRoute, rlVars, rtVars, corsVars, tplVars, envState, gateOrder>>

ThrottleNext ==
    \E r \in Requests :
        \/ \E rt \in RouteIds : ThArrive(r, rt)
        \/ ThAcquire(r)
        \/ ThNextReturn(r)
        \/ ThNextPanic(r)
        \/ ThRelease(r)

\* the connection of a finished request carries another request for the same
\* route: the server runs the wrapped handler again
ThNextRequest(r) ==
    /\ thPc[r] \in {"returned", "panicked"}
    /\ thPc' = [thPc EXCEPT ![r] = "send"]
    /\ UNCHANGED <<limit, sem, thRoute, rlVars, rtVars, corsVars, tplVars, envState, gateOrder>>

\* a server that keeps receiving requests for one route behind the Throttle
\* value (the routes do not differ in how they use sem)
ThrottleLiveNext ==
    \E r \in Requests :
        \/ ThArrive(r, 1)
        \/ ThAcquire(r)
        \/ ThNextReturn(r)
        \/ ThNextPanic(r)
        \/ ThRelease(r)
        \/ ThNextRequest(r)

\* Scheduling: the Go runtime queues the goroutines blocked on a channel send
\* first in first out, so a sender that is enabled again and again is served
\* (strong fairness of the send); a goroutine that can run does run, and the
\* inner handlers are assumed to finish (weak fairness of the steps of a
\* request that holds a slot, of which at most one kind is enabled at a time).
ThrottleFairness ==
    \A r \in Requests :
        /\ SF_vars(ThAcquire(r))
        /\ WF_vars(ThNextReturn(r) \/ ThNextPanic(r) \/ ThRelease(r))

(***************************************************************************)
(* Claims about Throttle (checked under SpecThrottle)                      *)
(***************************************************************************)

\* requests that are executing the inner handler behind the Throttle value
ThInHandler == {r \in Requests : thPc[r] = "next"}

\* requests that have sent their token and not yet received one back
ThHolders == {r \in Requests : thPc[r] \in {"next", "deferReturn", "deferPanic"}}

\* C1: for limit >= 1, at most limit requests execute the inner handler behind
\* one Throttle(limit) value at any time, counted over all the routes wrapped
\* with it; with limit 1 no two requests are in their handler bodies together.
C1_ThrottleBound ==
    limit >= 1 =>
        /\ Cardinality(ThInHandler) <= limit
        /\ limit = 1 =>
              \A r1, r2 \in Requests :
                  thPc[r1] = "next" /\ thPc[r2] = "next" => r1 = r2

\* C1 witness: limit 1, one request in its handler on one route while another
\* request, on another route, is blocked on the send
C1_Witness ==
    /\ limit = 1
    /\ \E r1, r2 \in Requests :
          /\ thPc[r1] = "next" /\ thPc[r2] = "send"
          /\ thRoute[r1] # thRoute[r2]

\* C10: every request that acquired a slot and has not yet run its deferred
\* release holds exactly one slot, nobody else holds any (no release without
\* acquire, one release per exit, by return or by panic), and once every
\* request has finished no slot is held.
C10_ReleaseBalanced ==
    /\ sem = Cardinality(ThHolders)
    /\ (\A r \in Requests : thPc[r] \in {"returned", "panicked"}) => sem = 0

\* C10 witness: every request has finished, one of them by a panic that went
\* past the Throttle layer and one by a normal return, under a limit >= 1
C10_Witness ==
    /\ limit >= 1
    /\ \A r \in Requests : thPc[r] \in {"returned", "panicked"}
    /\ \E r1, r2 \in Requests : thPc[r1] = "panicked" /\ thPc[r2] = "returned"

\* C11: Throttle queues and never rejects.  A request blocked on the send stays
\* blocked or goes on to its inner handler, the Throttle layer has no other
\* way out of the send; and with limit >= 1, under the fair scheduling above
\* with inner handlers that finish, every request waiting for a slot gets one
\* and runs its inner handler.  (SpecThrottleLive)
C11_QueuesNeverRejects ==
    /\ [][\A r \in Requests :
             thPc[r] = "send" => thPc'[r] \in {"send", "next"}]_vars
    /\ \A r \in Requests :
          (limit >= 1 /\ thPc[r] = "send") ~> (thPc[r] = "next")

\* C11 witness: a request waits on the send while every slot is held, on a
\* server where an earlier request has already finished
C11_Witness ==
    /\ limit >= 1
    /\ sem = limit
    /\ \E r1, r2 \in Requests :
          /\ thPc[r1] = "send"
          /\ thPc[r2] \in {"returned", "panicked"}

(***************************************************************************)
(* RateLimiter                                                             *)
(***************************************************************************)

\* time.Second, in clock units of 100ms
Second == 10

\* absence of a map entry (the "exists" result of the map read is false)
NoTime == -1

\* r.RemoteAddr values
ClientIPSeq == <<"1.2.3.4:5000", "5.6.7.8:6000">>
ClientIPs == {ClientIPSeq[i] : i \in 1..Len(ClientIPSeq)}
ClientIndex(ip) == CHOOSE i \in 1..Len(ClientIPSeq) : ClientIPSeq[i] = ip

\* lastRequestTime := make(map[string]time.Time); var mu sync.Mutex
\* These are created inside RateLimiter(next), which Router.Handle calls once
\* for every route it wraps: there is one map and one mutex per route.
LastRequestTimeEmpty == [rt \in RouteIds |-> [ip \in ClientIPs |-> NoTime]]
MuUnlocked == [rt \in RouteIds |-> 0]
RlPcIdle == [r \in Requests |-> "idle"]
RlRouteNone == [r \in Requests |-> 0]
RlClientIPNone == [r \in Requests |-> ""]
RlNowNone == [r \in Requests |-> NoTime]

\* mutant: a request exactly one second after the last one is rejected too
TooSoonInclusive(now, lastTime) == lastTime # NoTime /\ now - lastTime <= Second

\* if lastTime, exists := ...; exists { if now.Sub(lastTime) < time.Second
TooSoon(now, lastTime) == lastTime # NoTime /\ now - lastTime < Second

\* how far the clock may have advanced between two readings of time.Now()
\* (units of 100ms): not at all, 900ms, 1s, 1100ms
Deltas == {0, 9, 10, 11}

\* the server dispatches request r from ip to route rt; clientIP := r.RemoteAddr
RlArrive(r, rt, ip) ==
    /\ rlPc[r] = "idle"
    /\ (IF r = 1 THEN TRUE ELSE rlPc[r - 1] # "idle")
    /\ rt <= MaxOf({rlRoute[q] : q \in Requests}) + 1
    /\ ClientIndex(ip) <=
         MaxOf({ClientIndex(rlClientIP[q]) : q \in {x \in Requests : rlPc[x] # "idle"}}) + 1
    /\ rlPc' = [rlPc EXCEPT ![r] = "lock"]
    /\ rlRoute' = [rlRoute EXCEPT ![r] = rt]
    /\ rlClientIP' = [rlClientIP EXCEPT ![r] = ip]
    /\ UNCHANGED <<clock, lastRequestTime, mu, rlNow, thVars, rtVars, corsVars, tplVars, envState, gateOrder>>

\* mu.Lock(); defer mu.Unlock()
RlLock(r) ==
    /\ rlPc[r] = "lock"
    /\ mu[rlRoute[r]] = 0
    /\ mu' = [mu EXCEPT ![rlRoute[r]] = r]
    /\ rlPc' = [rlPc EXCEPT ![r] = "check"]
    /\ UNCHANGED <<clock, lastRequestTime, rlRoute, rlClientIP, rlNow, thVars, rtVars, corsVars, tplVars, envState, gateOrder>>

\* mutant: an accepted request stamps every client of the instance
RlCheckOneTimestamp(r, now) ==
    /\ rlPc[r] = "check"
    /\ now >= clock /\ now <= MaxClock
    /\ clock' = now
    /\ rlNow' = [rlNow EXCEPT ![r] = now]
    /\ IF TooSoon(now, lastRequestTime[rlRoute[r]][rlClientIP[r]])
       THEN /\ rlPc' = [rlPc EXCEPT ![r] = "rejected429"]
            /\ mu' = [mu EXCEPT ![rlRoute[r]] = 0]
            /\ UNCHANGED lastRequestTime
       ELSE /\ lastRequestTime' =
                 [lastRequestTime EXCEPT ![rlRoute[r]] =
                     [ip \in ClientIPs |-> now]]
            /\ rlPc' = [rlPc EXCEPT ![r] = "next"]
            /\ UNCHANGED mu
    /\ UNCHANGED <<rlRoute, rlClientIP, thVars, rtVars, corsVars, tplVars, envState, gateOrder>>

\* mutant: the 429 return leaves the mutex locked
RlCheckRejectKeepsLock(r, now) ==
    /\ rlPc[r] = "check"
    /\ now >= clock /\ now <= MaxClock
    /\ clock' = now
    /\ rlNow' = [rlNow EXCEPT ![r] = now]
    /\ IF TooSoon(now, lastRequestTime[rlRoute[r]][rlClientIP[r]])
       THEN /\ rlPc' = [rlPc EXCEPT ![r] = "rejected429"]
            /\ UNCHANGED <<lastRequestTime, mu>>
       ELSE /\ lastRequestTime' =
                 [lastRequestTime EXCEPT ![rlRoute[r]][rlClientIP[r]] = now]
            /\ rlPc' = [rlPc EXCEPT ![r] = "next"]
            /\ UNCHANGED mu
    /\ UNCHANGED <<rlRoute, rlClientIP, thVars, rtVars, corsVars, tplVars, envState, gateOrder>>

\* now := time.Now(); the check; either http.Error(429) and return (the
\* deferred Unlock runs), or the map update and the call of next
RlCheck(r, now) ==
    /\ rlPc[r] = "check"
    /\ now >= clock /\ now <= MaxClock
    /\ clock' = now
    /\ rlNow' = [rlNow EXCEPT ![r] = now]
    /\ IF TooSoon(now, lastRequestTime[rlRoute[r]][rlClientIP[r]])
       THEN /\ rlPc' = [rlPc EXCEPT ![r] = "rejected429"]
            /\ mu' = [mu EXCEPT ![rlRoute[r]] = 0]
            /\ UNCHANGED lastRequestTime
       ELSE /\ lastRequestTime' =
                 [lastRequestTime EXCEPT ![rlRoute[r]][rlClientIP[r]] = now]
            /\ rlPc' = [rlPc EXCEPT ![r] = "next"]
            /\ UNCHANGED mu
    /\ UNCHANGED <<rlRoute, rlClientIP, thVars, rtVars, corsVars, tplVars, envState, gateOrder>>

\* next.ServeHTTP(w, r) returns; the deferred mu.Unlock() runs
RlNextReturn(r) ==
    /\ rlPc[r] = "next"
    /\ rlPc' = [rlPc EXCEPT ![r] = "returned"]
    /\ mu' = [mu EXCEPT ![rlRoute[r]] = 0]
    /\ UNCHANGED <<clock, lastRequestTime, rlRoute, rlClientIP, rlNow, thVars, rtVars, corsVars, tplVars, envState, gateOrder>>

\* next.ServeHTTP(w, r) panics; the deferred mu.Unlock() runs while unwinding
RlNextPanic(r) ==
    /\ rlPc[r] = "next"
    /\ rlPc' = [rlPc EXCEPT ![r] = "panicked"]
    /\ mu' = [mu EXCEPT ![rlRoute[r]] = 0]
    /\ UNCHANGED <<clock, lastRequestTime, rlRoute, rlClientIP, rlNow, thVars, rtVars, corsVars, tplVars, envState, gateOrder>>

RateNext ==
    \E r \in Requests :
        \/ \E rt \in RouteIds, ip \in ClientIPs : RlArrive(r, rt, ip)
        \/ RlLock(r)
        \/ \E d \in Deltas : RlCheck(r, clock + d)
        \/ RlNextReturn(r)
        \/ RlNextPanic(r)

\* one RateLimiter(next) call: the requests of every client for one route
RateInstanceNext ==
    \E r \in Requests :
        \/ \E ip \in ClientIPs : RlArrive(r, 1, ip)
        \/ RlLock(r)
        \/ \E d \in Deltas : RlCheck(r, clock + d)
        \/ RlNextReturn(r)
        \/ RlNextPanic(r)

(***************************************************************************)
(* Claims about RateLimiter (checked under SpecRate)                       *)
(***************************************************************************)

\* requests whose inner handler was invoked
RlAccepted == {r \in Requests : rlPc[r] \in {"next", "returned", "panicked"}}

\* C2: the check-and-update step of a request of one RateLimiter instance and
\* one client: if a timestamp is stored and now - last < 1s the request ends
\* with 429, the inner handler is not invoked and the map is unchanged;
\* otherwise the timestamp becomes now and the inner handler is invoked. A
\* rejected request never reaches the inner handler later.
C2_CheckAndUpdate ==
    [][\A r \in Requests :
         /\ (rlPc[r] = "check" /\ rlPc'[r] # "check") =>
              LET rt == rlRoute[r]
                  ip == rlClientIP[r]
                  last == lastRequestTime[rt][ip]
                  now == rlNow'[r]
              IN  IF last # NoTime /\ now - last < Second
                  THEN /\ rlPc'[r] = "rejected429"
                       /\ lastRequestTime' = lastRequestTime
                  ELSE /\ rlPc'[r] = "next"
                       /\ lastRequestTime' =
                            [lastRequestTime EXCEPT ![rt][ip] = now]
         /\ rlPc[r] = "rejected429" => rlPc'[r] = "rejected429"
      ]_vars

\* C2 witness: on one route and for one client, a request accepted at some time
\* t, a second one accepted exactly 1s later and a third one rejected 900ms
\* after the second, the stored timestamp still being that of the second
C2_Witness ==
    \E r1, r2, r3 \in Requests :
        /\ rlRoute[r1] = rlRoute[r2] /\ rlRoute[r2] = rlRoute[r3]
        /\ rlClientIP[r1] = rlClientIP[r2] /\ rlClientIP[r2] = rlClientIP[r3]
        /\ rlPc[r1] = "returned"
        /\ rlPc[r2] = "returned" /\ rlNow[r2] = rlNow[r1] + Second
        /\ rlPc[r3] = "rejected429" /\ rlNow[r3] = rlNow[r2] + 9
        /\ lastRequestTime[rlRoute[r3]][rlClientIP[r3]] = rlNow[r2]

\* the time of the last request of client ip that the instance of route rt
\* let through to its inner handler, NoTime if there is none
LastAcceptedOf(rt, ip) ==
    LET times == {rlNow[q] : q \in {x \in RlAccepted :
                                       rlRoute[x] = rt /\ rlClientIP[x] = ip}}
    IN  IF times = {} THEN NoTime ELSE MaxOf(times)

\* C25 (checked under SpecRateInstance): the identities of one RateLimiter
\* instance are independent.  The stored timestamp of an identity changes
\* only in the step that accepts a
\* request of that very identity: a request of another identity, accepted or
\* rejected, leaves it unchanged.  So a request is rejected iff the last
\* accepted request of its own identity is less than one second old, whatever
\* requests of other identities were served in between.
C25_IdentitiesIndependent ==
    [][/\ \A rt \in RouteIds, ip \in ClientIPs :
             lastRequestTime'[rt][ip] # lastRequestTime[rt][ip] =>
                 \E r \in Requests :
                     /\ rlPc[r] = "check" /\ rlPc'[r] = "next"
                     /\ rlRoute[r] = rt /\ rlClientIP[r] = ip
                     /\ lastRequestTime'[rt][ip] = rlNow'[r]
       /\ \A r \in Requests :
             (rlPc[r] = "check" /\ rlPc'[r] # "check") =>
                 LET own == LastAcceptedOf(rlRoute[r], rlClientIP[r])
                 IN  /\ rlPc'[r] \in {"rejected429", "next"}
                     /\ rlPc'[r] = "rejected429"
                           <=> (own # NoTime /\ rlNow'[r] - own < Second)
      ]_vars

\* C25 witness: on one route a request of A was accepted, one of B less than
\* a second later, and a further one of A was rejected after that; each identity
\* still has the timestamp of its own accepted request
C25_Witness ==
    \E a1, b, a2 \in Requests :
        /\ rlRoute[a1] = rlRoute[b] /\ rlRoute[b] = rlRoute[a2]
        /\ rlClientIP[a1] = rlClientIP[a2] /\ rlClientIP[b] # rlClientIP[a1]
        /\ rlPc[a1] = "returned" /\ rlPc[b] = "returned"
        /\ rlPc[a2] = "rejected429"
        /\ rlNow[a1] <= rlNow[b] /\ rlNow[b] < rlNow[a2]
        /\ rlNow[a2] - rlNow[a1] < Second
        /\ lastRequestTime[rlRoute[b]][rlClientIP[b]] = rlNow[b]
        /\ lastRequestTime[rlRoute[a1]][rlClientIP[a1]] = rlNow[a1]

\* C3 (as claimed): any two requests of the same client that reached a business
\* handler were accepted at least one second apart, whichever routes they
\* target. RateLimiter keeps one map per wrapped route, so this fails.
C3_OnePerClientPerSecond ==
    \A r1, r2 \in RlAccepted :
        (r1 # r2 /\ rlClientIP[r1] = rlClientIP[r2]) =>
            \/ rlNow[r1] - rlNow[r2] >= Second
            \/ rlNow[r2] - rlNow[r1] >= Second

\* C12: the RateLimiter lock is held only for the check and the update of the
\* timestamp, so no request waits at mu.Lock() for a lock whose holder is
\* executing its inner handler.
C12_LockOnlyForCheck ==
    \A r \in Requests :
        rlPc[r] = "lock" =>
            (IF mu[rlRoute[r]] = 0 THEN TRUE
             ELSE rlPc[mu[rlRoute[r]]] # "next")

(***************************************************************************)
(* Router: strings                                                         *)
(*                                                                         *)
(* A string is a sequence of one-character strings.  The characters used   *)
(* are letters and digits (all in \w), "/", "{", "}", "*" and ".".         *)
(***************************************************************************)

\* characters of the model's alphabet that are not in the class \w
NonWordChars == {"/", "{", "}", "*", ".", "(", ")", "[", "]", "^", "+", "$"}

IsWordChar(c) == c \notin NonWordChars

\* s without its first n characters
Drop(s, n) == SubSeq(s, n + 1, Len(s))

\* strings.HasPrefix(s, prefix)
HasPrefix(s, prefix) ==
    /\ Len(prefix) <= Len(s)
    /\ SubSeq(s, 1, Len(prefix)) = prefix

\* strings.TrimSuffix(s, "*")
TrimSuffixStar(s) ==
    IF Len(s) >= 1 /\ s[Len(s)] = "*" THEN SubSeq(s, 1, Len(s) - 1) ELSE s

\* length of the longest run of \w characters of s that starts at position i
RECURSIVE WordRun(_, _)
WordRun(s, i) ==
    IF i <= Len(s) /\ IsWordChar(s[i]) THEN 1 + WordRun(s, i + 1) ELSE 0

\* whether the regular expression \{(\w+)\} matches s at position i
PlaceholderAt(s, i) ==
    /\ s[i] = "{"
    /\ WordRun(s, i + 1) >= 1
    /\ i + WordRun(s, i + 1) + 1 <= Len(s)
    /\ s[i + WordRun(s, i + 1) + 1] = "}"

\* paramPattern.FindAllStringSubmatch(path, -1), keeping match[1] of each
\* match: the names of the placeholders of path from position i on, leftmost
\* first and not overlapping
RECURSIVE FindParamKeys(_, _)
FindParamKeys(path, i) ==
    IF i > Len(path) THEN <<>>
    ELSE IF PlaceholderAt(path, i)
         THEN <<SubSeq(path, i + 1, i + WordRun(path, i + 1))>>
              \o FindParamKeys(path, i + WordRun(path, i + 1) + 2)
         ELSE FindParamKeys(path, i + 1)

\* the replacement text `([^/]+)`
GroupSource == <<"(", "[", "^", "/", "]", "+", ")">>

\* paramPattern.ReplaceAllString(path, `([^/]+)`), from position i on
RECURSIVE ReplacePlaceholders(_, _)
ReplacePlaceholders(path, i) ==
    IF i > Len(path) THEN <<>>
    ELSE IF PlaceholderAt(path, i)
         THEN GroupSource
              \o ReplacePlaceholders(path, i + WordRun(path, i + 1) + 2)
         ELSE <<path[i]>> \o ReplacePlaceholders(path, i + 1)

(***************************************************************************)
(* Router: the regular expressions Handle compiles                         *)
(*                                                                         *)
(* regexp.MustCompile("^" + source + "$") is modelled for the sources the  *)
(* templates of this model produce: a sequence of atoms, each a literal    *)
(* character, "." (any character), the group ([^/]+) or a capture group    *)
(* (...) around a sequence of atoms, the first three optionally followed   *)
(* by "*".  The templates used keep every "*" directly after a literal     *)
(* character, close every "(" they open, nest no parentheses and contain   *)
(* no other metacharacter.  An atom is [kind, ch, star, sub].              *)
(***************************************************************************)

\* whether the source has the group text at position i
GroupAt(src, i) ==
    /\ i + Len(GroupSource) - 1 <= Len(src)
    /\ SubSeq(src, i, i + Len(GroupSource) - 1) = GroupSource

\* position of the first ")" of src after position i
CloseParen(src, i) ==
    CHOOSE j \in (i + 1)..Len(src) :
        src[j] = ")" /\ \A k \in (i + 1)..(j - 1) : src[k] # ")"

\* the parse of the regular expression source from position i on
RECURSIVE ParseRegexp(_, _)
ParseRegexp(src, i) ==
    IF i > Len(src) THEN <<>>
    ELSE IF src[i] = "(" /\ ~GroupAt(src, i)
    THEN <<[kind |-> "capture", ch |-> "(", star |-> FALSE,
            sub |-> ParseRegexp(SubSeq(src, i + 1, CloseParen(src, i) - 1), 1)]>>
         \o ParseRegexp(src, CloseParen(src, i) + 1)
    ELSE LET n == IF GroupAt(src, i) THEN Len(GroupSource) ELSE 1
             kind == IF GroupAt(src, i) THEN "group"
                     ELSE IF src[i] = "." THEN "any" ELSE "lit"
             star == i + n <= Len(src) /\ src[i + n] = "*"
         IN  <<[kind |-> kind, ch |-> src[i], star |-> star, sub |-> <<>>]>>
             \o ParseRegexp(src, i + n + (IF star THEN 1 ELSE 0))

\* ParamPattern.NumSubexp(): the number of capture groups of the expression
RECURSIVE NumSubexp(_)
NumSubexp(atoms) ==
    IF atoms = <<>> THEN 0
    ELSE (CASE Head(atoms).kind = "group" -> 1
            [] Head(atoms).kind = "capture" -> 1 + NumSubexp(Head(atoms).sub)
            [] OTHER -> 0)
         + NumSubexp(Tail(atoms))

\* whether one character can be consumed by the atom
AtomTakes(atom, c) ==
    CASE atom.kind = "lit" -> c = atom.ch
      [] atom.kind = "any" -> TRUE
      [] atom.kind = "group" -> c # "/"

\* number of leading characters of s the atom can consume one after another
RECURSIVE AtomRun(_, _)
AtomRun(atom, s) ==
    IF s # <<>> /\ AtomTakes(atom, s[1]) THEN 1 + AtomRun(atom, Tail(s)) ELSE 0

NoMatch == [ok |-> FALSE, groups |-> <<>>]

\* ParamPattern.FindStringSubmatch on the whole of s (the pattern is anchored
\* by ^ and $): whether the atoms match s, and the text of each capture group;
\* repetitions are greedy and give back characters only as far as needed
RECURSIVE Submatch(_, _)
Submatch(atoms, s) ==
    IF atoms = <<>>
    THEN IF s = <<>> THEN [ok |-> TRUE, groups |-> <<>>] ELSE NoMatch
    ELSE IF Head(atoms).kind = "capture"
    THEN LET inner == [k \in 0..Len(s) |->
                          Submatch(Head(atoms).sub, SubSeq(s, 1, k))]
             rest == [k \in 0..Len(s) |-> Submatch(Tail(atoms), Drop(s, k))]
             good == {k \in 0..Len(s) : inner[k].ok /\ rest[k].ok}
         IN  IF good = {} THEN NoMatch
             ELSE [ok |-> TRUE,
                   groups |-> <<SubSeq(s, 1, MaxOf(good))>>
                              \o inner[MaxOf(good)].groups
                              \o rest[MaxOf(good)].groups]
    ELSE LET atom == Head(atoms)
             run == AtomRun(atom, s)
             lo == IF atom.kind = "group" THEN 1
                   ELSE IF atom.star THEN 0 ELSE 1
             hi == IF atom.kind = "group" \/ atom.star THEN run
                   ELSE IF run >= 1 THEN 1 ELSE 0
             rest == [k \in lo..hi |-> Submatch(Tail(atoms), Drop(s, k))]
             good == {k \in lo..hi : rest[k].ok}
         IN  IF good = {} THEN NoMatch
             ELSE [ok |-> TRUE,
                   groups |-> IF atom.kind = "group"
                              THEN <<SubSeq(s, 1, MaxOf(good))>>
                                   \o rest[MaxOf(good)].groups
                              ELSE rest[MaxOf(good)].groups]

\* regexp.MustCompile("^" + ReplaceAllString(path, `([^/]+)`) + "$")
CompilePattern(path) == ParseRegexp(ReplacePlaceholders(path, 1), 1)

\* ParamPattern.MatchString(s)
MatchString(pattern, s) == Submatch(pattern, s).ok

(***************************************************************************)
(* Router                                                                  *)
(*                                                                         *)
(* routers is the stack of Router values in use: routers[1] is the router  *)
(* made by NewRouter and every further element is a sub-router whose Route *)
(* callback is running.  A router is [id, parent, prefix, middleware,      *)
(* routes]: id numbers the Route call that made it (0 for the root),       *)
(* parent is the stack position of the router Route was called on and      *)
(* prefix is that call's pathPrefix.  routes maps <<path, method>> to a    *)
(* Route [Handler, ParamKeys, ParamPattern] (the two-level Go map,         *)
(* flattened).                                                             *)
(*                                                                         *)
(* A middleware passed to Use is an opaque pass-through wrapper named by   *)
(* the Use call that registered it: [t, on], t the number of the call and  *)
(* on the id of the router it was called on.  A business handler passed to *)
(* Handle is named the same way by its Handle call.  A handler value is    *)
(* [layers, terminal]: the middlewares wrapped around it, outermost first, *)
(* and the business handler.                                               *)
(***************************************************************************)

EmptyRoutes == [k \in {} |-> 0]

\* NewRouter()
NewRouter ==
    [id |-> 0, parent |-> 0, prefix |-> <<>>, middleware |-> <<>>,
     routes |-> EmptyRoutes]

RoutersInit == <<NewRouter>>

RespNone ==
    [kind |-> "none", method |-> "", path |-> <<>>, key |-> <<>>,
     terminal |-> 0, params |-> EmptyRoutes, trace |-> <<>>]

HandleLogEmpty == [h \in {} |-> 0]

CallsNone == [use |-> 0, handle |-> 0, route |-> 0]

\* the number of the next Use, Handle or Route call
NextCall == calls.use + calls.handle + calls.route + 1

\* m[k] = v on a Go map
MapSet(m, k, v) == [x \in DOMAIN m \cup {k} |-> IF x = k THEN v ELSE m[x]]

\* mutant: the new slice shares nothing with the parent's list
CopyMiddlewareNone(mws) == <<>>

\* make([]Middleware, len(r.middleware)); copy(subrouter.middleware, r.middleware)
CopyMiddleware(mws) == [i \in 1..Len(mws) |-> mws[i]]

\* mw(handler) for a pass-through middleware: mw becomes the outermost layer
ApplyMiddleware(mw, handler) ==
    [handler EXCEPT !.layers = <<mw>> \o @]

\* mutant: the loop runs from the first middleware to the last
RECURSIVE WrapHandlerForward(_, _, _)
WrapHandlerForward(mws, i, handler) ==
    IF i < 1 THEN handler
    ELSE WrapHandlerForward(mws, i - 1,
                            ApplyMiddleware(mws[Len(mws) + 1 - i], handler))

\* for i := len(r.middleware) - 1; i >= 0; i-- { handler = r.middleware[i](handler) }
\* (positions are counted from 1 here)
RECURSIVE WrapHandler(_, _, _)
WrapHandler(mws, i, handler) ==
    IF i < 1 THEN handler
    ELSE WrapHandler(mws, i - 1, ApplyMiddleware(mws[i], handler))

\* the Route value Handle stores
NewRoute(mws, path, h) ==
    [Handler |-> WrapHandler(mws, Len(mws), [layers |-> <<>>, terminal |-> h]),
     ParamKeys |-> FindParamKeys(path, 1),
     ParamPattern |-> CompilePattern(path)]

\* mutant: the new middleware is also wrapped (innermost) around the handlers
\* of the routes the router already holds
UseRetroactive(f) ==
    /\ f \in 1..Len(routers)
    /\ resp = RespNone
    /\ calls.use < MaxUse
    /\ calls' = [calls EXCEPT !.use = @ + 1]
    /\ routers' =
         [routers EXCEPT
            ![f].middleware = Append(@, [t |-> NextCall, on |-> routers[f].id]),
            ![f].routes = [k \in DOMAIN @ |->
                             [@[k] EXCEPT !.Handler.layers =
                                 Append(@, [t |-> NextCall, on |-> routers[f].id])]]]
    /\ UNCHANGED <<resp, handleLog, thVars, rlVars, corsVars, tplVars, envState, gateOrder>>

\* r.Use(mw) on the router at stack position f
Use(f) ==
    /\ f \in 1..Len(routers)
    /\ resp = RespNone
    /\ calls.use < MaxUse
    /\ calls' = [calls EXCEPT !.use = @ + 1]
    /\ routers' = [routers EXCEPT ![f].middleware =
                      Append(@, [t |-> NextCall, on |-> routers[f].id])]
    /\ UNCHANGED <<resp, handleLog, thVars, rlVars, corsVars, tplVars, envState, gateOrder>>

\* r.Handle(method, path, handler) on the router at stack position f
Handle(f, method, path) ==
    /\ f \in 1..Len(routers)
    /\ resp = RespNone
    /\ calls.handle < MaxHandle
    /\ calls' = [calls EXCEPT !.handle = @ + 1]
    /\ routers' = [routers EXCEPT ![f].routes =
                      MapSet(@, <<path, method>>,
                             NewRoute(routers[f].middleware, path,
                                      [t |-> NextCall, on |-> routers[f].id]))]
    /\ handleLog' = MapSet(handleLog, NextCall,
                           [on |-> routers[f].id, method |-> method,
                            path |-> path,
                            middleware |-> routers[f].middleware])
    /\ UNCHANGED <<resp, thVars, rlVars, corsVars, tplVars, envState, gateOrder>>

\* r.Route(pathPrefix, fn) on the router at stack position f, up to the call
\* of fn: the sub-router is made and fn starts to run on it
RouteBegin(f, pathPrefix) ==
    /\ f \in 1..Len(routers)
    /\ resp = RespNone
    /\ calls.route < MaxSubRouters
    /\ calls' = [calls EXCEPT !.route = @ + 1]
    /\ routers' = Append(routers,
                         [id |-> NextCall, parent |-> f,
                          prefix |-> pathPrefix,
                          middleware |-> CopyMiddleware(routers[f].middleware),
                          routes |-> EmptyRoutes])
    /\ UNCHANGED <<resp, handleLog, thVars, rlVars, corsVars, tplVars, envState, gateOrder>>

\* the routes of the parent after the loop of Route over subrouter.routes:
\* r.routes[pathPrefix + path][method] = route
MergeRoutes(parentRoutes, pathPrefix, subRoutes) ==
    LET fullKeys == {<<pathPrefix \o k[1], k[2]>> : k \in DOMAIN subRoutes}
    IN  [k \in DOMAIN parentRoutes \cup fullKeys |->
            IF k \in fullKeys
            THEN subRoutes[<<Drop(k[1], Len(pathPrefix)), k[2]>>]
            ELSE parentRoutes[k]]

\* r.Route(pathPrefix, fn) from the return of fn on: the routes of the
\* sub-router are added to the parent under pathPrefix + path
RouteEnd ==
    /\ Len(routers) > 1
    /\ resp = RespNone
    /\ LET sub == routers[Len(routers)]
           rest == SubSeq(routers, 1, Len(routers) - 1)
       IN  routers' = [rest EXCEPT ![sub.parent].routes =
                          MergeRoutes(@, sub.prefix, sub.routes)]
    /\ UNCHANGED <<calls, resp, handleLog, thVars, rlVars, corsVars, tplVars, envState, gateOrder>>

\* Handler.ServeHTTP(w, req) for a wrapped handler: every layer is entered,
\* calls the next one and is left after it returned; the events in order
RECURSIVE ServeHandler(_, _)
ServeHandler(layers, terminal) ==
    IF layers = <<>> THEN <<[ev |-> "handler", who |-> terminal]>>
    ELSE <<[ev |-> "enter", who |-> Head(layers)]>>
         \o ServeHandler(Tail(layers), terminal)
         \o <<[ev |-> "exit", who |-> Head(layers)]>>

\* req.Method == method && (route.ParamPattern.MatchString(req.URL.Path) ||
\*     strings.HasPrefix(req.URL.Path, strings.TrimSuffix(path, "*")))
RouteMatches(route, key, method, path) ==
    /\ method = key[2]
    /\ \/ MatchString(route.ParamPattern, path)
       \/ HasPrefix(path, TrimSuffixStar(key[1]))

\* whether params[key] = matches[i+1] indexes past the end of matches for some
\* key: matches is nil when the pattern does not match the path
BindPanics(route, path) ==
    LET m == Submatch(route.ParamPattern, path)
    IN  Len(route.ParamKeys) > (IF m.ok THEN Len(m.groups) ELSE 0)

\* the params map: for i, key := range route.ParamKeys { params[key] = matches[i+1] }
BindParams(route, path) ==
    LET m == Submatch(route.ParamPattern, path)
        keys == route.ParamKeys
    IN  [name \in {keys[i] : i \in 1..Len(keys)} |->
            m.groups[MaxOf({i \in 1..Len(keys) : keys[i] = name})]]

\* URLParam(r, key) on a request whose context carries params
URLParam(params, key) == IF key \in DOMAIN params THEN params[key] ELSE <<>>

\* ServeHTTP without the return after route.Handler.ServeHTTP(w, req): the range
\* loops go on to a further matching entry and run its handler as well
ServeHTTPAllMatching(method, path) ==
    /\ Len(routers) = 1
    /\ resp = RespNone
    /\ LET routes == routers[1].routes
           matching == {k \in DOMAIN routes :
                           RouteMatches(routes[k], k, method, path)}
       IN  IF matching = {}
           THEN resp' = [kind |-> "notfound", method |-> method, path |-> path,
                         key |-> <<>>, terminal |-> 0,
                         params |-> EmptyRoutes, trace |-> <<>>]
           ELSE \E k \in matching, k2 \in matching :
                   LET route == routes[k]
                       further == routes[k2]
                   IN  resp' = [kind |-> "handler", method |-> method,
                                path |-> path, key |-> k[1],
                                terminal |-> route.Handler.terminal.t,
                                params |-> EmptyRoutes,
                                trace |-> ServeHandler(route.Handler.layers,
                                                       route.Handler.terminal)
                                          \o (IF k2 = k THEN <<>>
                                              ELSE ServeHandler(
                                                       further.Handler.layers,
                                                       further.Handler.terminal))]
    /\ UNCHANGED <<routers, calls, handleLog, thVars, rlVars, corsVars, tplVars, envState, gateOrder>>

\* r.ServeHTTP(w, req) on the root router, no Route callback running.  The two
\* range loops visit the map entries in an order the Go runtime picks, so the
\* first matching entry may be any matching entry.
ServeHTTP(method, path) ==
    /\ Len(routers) = 1
    /\ resp = RespNone
    /\ LET routes == routers[1].routes
           matching == {k \in DOMAIN routes :
                           RouteMatches(routes[k], k, method, path)}
       IN  IF matching = {}
           THEN resp' = [kind |-> "notfound", method |-> method, path |-> path,
                         key |-> <<>>, terminal |-> 0,
                         params |-> EmptyRoutes, trace |-> <<>>]
           ELSE \E k \in matching :
                   LET route == routes[k]
                   IN  IF BindPanics(route, path)
                       THEN resp' = [kind |-> "panic", method |-> method,
                                     path |-> path, key |-> k[1],
                                     terminal |-> 0, params |-> EmptyRoutes,
                                     trace |-> <<>>]
                       ELSE resp' = [kind |-> "handler", method |-> method,
                                     path |-> path, key |-> k[1],
                                     terminal |-> route.Handler.terminal.t,
                                     params |-> BindParams(route, path),
                                     trace |-> ServeHandler(route.Handler.layers,
                                                            route.Handler.terminal)]
    /\ UNCHANGED <<routers, calls, handleLog, thVars, rlVars, corsVars, tplVars, envState, gateOrder>>

\* the caller has read the outcome of the ServeHTTP call; the next call of the
\* single-threaded caller (a registration or another request) can start
ResponseRead ==
    /\ resp # RespNone
    /\ resp' = RespNone
    /\ UNCHANGED <<routers, calls, handleLog, thVars, rlVars, corsVars, tplVars, envState, gateOrder>>

(***************************************************************************)
(* Router: inputs                                                          *)
(***************************************************************************)
Methods == {"GET", "POST"}

\* path templates passed to Handle
TplUsers == <<"/", "u">>
TplUserId == <<"/", "u", "/", "{", "i", "}">>
TplTwoParams == <<"/", "{", "i", "}", "/", "{", "j", "}">>
TplFiles == <<"/", "f", "/", "*">>
Templates == {TplUsers, TplUserId, TplTwoParams, TplFiles}

\* path prefixes passed to Route
PrefixAdmin == <<"/", "a">>
Prefixes == {PrefixAdmin}

\* request paths; the last two carry the text of a template, braces included
\* (the server hands the decoded path to the router, %7B and %7D being braces)
RequestPaths ==
    {<<"/", "u">>, <<"/", "u", "/", "4">>, <<"/", "4", "/", "7">>,
     <<"/", "f", "/", "x">>, <<"/", "a", "/", "u">>,
     <<"/", "a", "/", "u", "/", "4">>, <<"/", "x">>,
     TplUserId \o <<"/", "b">>, PrefixAdmin \o TplUserId}

\* the middleware-chain specification registers every route under one method
\* and one template and asks for the paths under which routes are stored
ChainRequestPaths == {TplUsers, PrefixAdmin \o TplUsers,
                      PrefixAdmin \o PrefixAdmin \o TplUsers}

ChainNext ==
    \/ \E f \in 1..Len(routers) : Use(f)
    \/ \E f \in 1..Len(routers) : Handle(f, "GET", TplUsers)
    \/ \E f \in 1..Len(routers), prefix \in Prefixes : RouteBegin(f, prefix)
    \/ RouteEnd
    \/ \E path \in ChainRequestPaths : ServeHTTP("GET", path)
    \/ ResponseRead

MatchNext ==
    \/ \E f \in 1..Len(routers), method \in Methods, path \in Templates :
          Handle(f, method, path)
    \/ \E f \in 1..Len(routers), prefix \in Prefixes : RouteBegin(f, prefix)
    \/ RouteEnd
    \/ \E method \in Methods, path \in RequestPaths : ServeHTTP(method, path)
    \/ ResponseRead

(***************************************************************************)
(* Claims about the middleware chain (checked under SpecChain)             *)
(***************************************************************************)

\* the middlewares entered while the last request was served, in order
EnteredMiddlewares ==
    LET es == SelectSeq(resp.trace, LAMBDA e : e.ev = "enter")
    IN  [i \in 1..Len(es) |-> es[i].who]

\* the middlewares left while the last request was served, in order
ExitedMiddlewares ==
    LET es == SelectSeq(resp.trace, LAMBDA e : e.ev = "exit")
    IN  [i \in 1..Len(es) |-> es[i].who]

\* the middleware list of the receiver of the Handle call that registered the
\* business handler of the last request, as it was at that call
RegisteredMiddlewares == handleLog[resp.terminal].middleware

Reverse(s) == [i \in 1..Len(s) |-> s[Len(s) + 1 - i]]

\* C4: a request resolved to a route registered after Use(m1), ..., Use(mn)
\* enters m1, ..., mn in that order, then runs the business handler, then
\* returns through mn, ..., m1: the middleware registered first is outermost.
C4_MiddlewareOrder ==
    resp.kind = "handler" =>
        LET reg == RegisteredMiddlewares
            n == Len(reg)
        IN  /\ Len(resp.trace) = 2 * n + 1
            /\ \A i \in 1..n :
                  /\ resp.trace[i] = [ev |-> "enter", who |-> reg[i]]
                  /\ resp.trace[2 * n + 2 - i] = [ev |-> "exit", who |-> reg[i]]
            /\ resp.trace[n + 1].ev = "handler"
            /\ resp.trace[n + 1].who.t = resp.terminal
            /\ \A i, j \in 1..n : i < j => reg[i].t < reg[j].t
            /\ ExitedMiddlewares = Reverse(EnteredMiddlewares)

\* C4 witness: a request was served by a route wrapped in two middlewares
C4_Witness ==
    /\ resp.kind = "handler"
    /\ Len(EnteredMiddlewares) = 2
    /\ EnteredMiddlewares[1].t < EnteredMiddlewares[2].t

\* C5: the middlewares that run for a request to a route are exactly the
\* middleware list of the router as it was when Handle registered the route:
\* none that Use added later, and for a route of the root router every one
\* that Use had added to the root router before.
C5_WrappedAtRegistration ==
    resp.kind = "handler" =>
        /\ EnteredMiddlewares = RegisteredMiddlewares
        /\ \A i \in 1..Len(EnteredMiddlewares) :
              EnteredMiddlewares[i].t < resp.terminal
        /\ handleLog[resp.terminal].on = 0 =>
              EnteredMiddlewares =
                  SelectSeq(routers[1].middleware,
                            LAMBDA m : m.t < resp.terminal)

\* C5 witness: the request was served by a route of the root router that was
\* registered after one Use and before another; only the first one ran
C5_Witness ==
    /\ resp.kind = "handler"
    /\ handleLog[resp.terminal].on = 0
    /\ Len(EnteredMiddlewares) = 1
    /\ \E i \in 1..Len(routers[1].middleware) :
          routers[1].middleware[i].t > resp.terminal

\* C6: a sub-router's middleware list is the parent's list as it was when
\* Route made the sub-router, followed by what Use added to the sub-router
\* itself; what Use adds to the parent afterwards (also from inside the
\* callback) is not in it, and what Use adds to the sub-router is not in the
\* parent's list.  So a route declared in a sub-router runs, besides the
\* sub-router's own middlewares, only middlewares older than the sub-router,
\* and a route of the root router runs only the root router's middlewares.
C6_SubRouterSnapshot ==
    /\ \A f \in 2..Len(routers) :
          LET sub == routers[f]
              par == routers[sub.parent]
              inherited == SelectSeq(par.middleware, LAMBDA m : m.t < sub.id)
              own == SelectSeq(sub.middleware, LAMBDA m : m.on = sub.id)
          IN  /\ sub.middleware = inherited \o own
              /\ \A i \in 1..Len(par.middleware) :
                    par.middleware[i].on # sub.id
    /\ \A i \in 1..Len(routers[1].middleware) : routers[1].middleware[i].on = 0
    /\ resp.kind = "handler" =>
          LET on == handleLog[resp.terminal].on
          IN  \A i \in 1..Len(EnteredMiddlewares) :
                  LET m == EnteredMiddlewares[i]
                  IN  IF m.on = on THEN m.t < resp.terminal ELSE m.t < on

\* C6 witness: the request was served by a route declared in a sub-router; a
\* middleware the parent had before Route ran for it, and a middleware added
\* to the parent inside the callback, before the route was declared, did not
C6_Witness ==
    /\ resp.kind = "handler"
    /\ handleLog[resp.terminal].on # 0
    /\ \E i \in 1..Len(EnteredMiddlewares) : EnteredMiddlewares[i].on = 0
    /\ \E i \in 1..Len(routers[1].middleware) :
          LET m == routers[1].middleware[i]
          IN  /\ m.t > handleLog[resp.terminal].on
              /\ m.t < resp.terminal
              /\ \A j \in 1..Len(EnteredMiddlewares) : EnteredMiddlewares[j] # m

\* the registry entries that match the request just served: the candidates of
\* the range loops of ServeHTTP
MatchingEntries ==
    {k \in DOMAIN routers[1].routes :
        RouteMatches(routers[1].routes[k], k, resp.method, resp.path)}

\* the business handlers that ran while the last request was served
HandlersRun == SelectSeq(resp.trace, LAMBDA e : e.ev = "handler")

RECURSIVE Instances(_, _, _)
Instances(tpl, i, s) ==
    IF i > Len(tpl)
    THEN IF s = <<>> THEN {<<>>} ELSE {}
    ELSE IF PlaceholderAt(tpl, i)
         THEN UNION {{<<SubSeq(s, 1, k)>> \o rest :
                         rest \in Instances(tpl, i + WordRun(tpl, i + 1) + 2,
                                            Drop(s, k))} :
                     k \in {n \in 1..Len(s) :
                               \A j \in 1..n : s[j] # "/"}}
         ELSE IF s # <<>> /\ s[1] = tpl[i]
              THEN Instances(tpl, i + 1, Tail(s))
              ELSE {}

\* path s is template tpl with its placeholders substituted
Instantiates(tpl, s) == Instances(tpl, 1, s) # {}

\* the last request was resolved to the handler registered by Handle call h of
\* template tpl, and each placeholder name of tpl, in template order, is bound
\* to the value substituted for it
ResolvedWithParams(h, tpl) ==
    /\ resp.kind = "handler"
    /\ resp.terminal = h
    /\ LET keys == FindParamKeys(tpl, 1)
       IN  \E vals \in Instances(tpl, 1, resp.path) :
               /\ \A i \in 1..Len(keys) : URLParam(resp.params, keys[i]) = vals[i]
               /\ DOMAIN resp.params = {keys[i] : i \in 1..Len(keys)}

\* the Handle calls whose route the root registry holds under key k
RegisteredUnder(k) ==
    {h \in DOMAIN handleLog : routers[1].routes[k].Handler.terminal.t = h}

\* C7: after Route(prefix, fn) in which fn registered handler h for
\* (method, path), the parent's registry holds a route for
\* (method, prefix + path), and a request with that method whose path is
\* prefix + path with every placeholder replaced by a non-empty value without
\* "/" is resolved to h with every placeholder name bound to its value.  It is
\* stated for a registry that holds this route only, where no other route can
\* take the request.
C7_SubRouteResolves ==
    (/\ Len(routers) = 1
     /\ Cardinality(DOMAIN routers[1].routes) = 1
     /\ Cardinality(DOMAIN handleLog) = 1) =>
        \A h \in DOMAIN handleLog :
            handleLog[h].on # 0 =>
                \E k \in DOMAIN routers[1].routes :
                    /\ RegisteredUnder(k) = {h}
                    /\ k[2] = handleLog[h].method
                    /\ Len(k[1]) > Len(handleLog[h].path)
                    /\ Drop(k[1], Len(k[1]) - Len(handleLog[h].path))
                           = handleLog[h].path
                    /\ (/\ resp.kind # "none"
                        /\ resp.method = k[2]
                        /\ Instantiates(k[1], resp.path))
                           => ResolvedWithParams(h, k[1])

\* C8: for a route registered by calling Handle on the router that serves the
\* request, with a template whose placeholders each fill one whole path
\* segment and have different names, a request whose path instantiates the
\* template is resolved to that route's handler, and the handler reads exactly
\* the template's placeholder names, each bound to the segment in its place.
C8_DirectRouteBinds ==
    (Len(routers) = 1 /\ resp.kind # "none") =>
        \A k \in DOMAIN routers[1].routes :
            \A h \in RegisteredUnder(k) :
                (/\ handleLog[h].on = 0
                 /\ resp.method = k[2]
                 /\ Instantiates(k[1], resp.path))
                    => ResolvedWithParams(h, k[1])

\* C9: when no route of the registry (the routes merged from sub-routers are
\* there under prefix + path) has the request's method and a template that
\* the path either instantiates or, the template's trailing "*" removed,
\* begins with, the response is 404 and no handler runs.
C9_NotFound ==
    (/\ Len(routers) = 1
     /\ resp.kind # "none"
     /\ \A k \in DOMAIN routers[1].routes :
           \/ k[2] # resp.method
           \/ /\ ~Instantiates(k[1], resp.path)
              /\ ~HasPrefix(resp.path, TrimSuffixStar(k[1])))
        => resp.kind = "notfound"

\* C23 (as claimed): ServeHTTP never faults while binding parameters: whenever
\* a route is selected, also through the prefix rule alone or through a
\* sub-route whose stored pattern lacks the prefix, every name in ParamKeys has
\* a captured group, so a request ends in a handler call or in a 404 and
\* never in an index-out-of-range panic.
C23_BindingNeverFaults ==
    resp # RespNone => resp.kind \in {"handler", "notfound"}

(***************************************************************************)
(* CORS: strings                                                           *)
(*                                                                         *)
(* Origins, origin patterns and header lists are sequences of              *)
(* one-character strings, so that Split, ToLower, TrimSpace and Join are   *)
(* computed.  Method names and exposed header names are never taken apart  *)
(* by the code and stay whole.                                             *)
(***************************************************************************)

\* strings.Contains(s, c) for a one-character c
Contains(s, c) == \E i \in 1..Len(s) : s[i] = c

\* strings.HasSuffix(s, suffix)
HasSuffix(s, suffix) ==
    /\ Len(suffix) <= Len(s)
    /\ SubSeq(s, Len(s) - Len(suffix) + 1, Len(s)) = suffix

\* strings.Split(s, c) for a one-character c: the pieces between the
\* occurrences of c, empty pieces included
RECURSIVE Split(_, _)
Split(s, c) ==
    IF ~Contains(s, c) THEN <<s>>
    ELSE LET i == CHOOSE k \in 1..Len(s) :
                      s[k] = c /\ \A j \in 1..(k - 1) : s[j] # c
         IN  <<SubSeq(s, 1, i - 1)>> \o Split(Drop(s, i), c)

\* strings.Join(parts, ", ")
RECURSIVE Join(_)
Join(parts) ==
    IF parts = <<>> THEN <<>>
    ELSE IF Len(parts) = 1 THEN parts[1]
         ELSE parts[1] \o <<",", " ">> \o Join(Tail(parts))

\* the upper-case letters of the model's alphabet and their lower-case forms
UpperChars == <<"A", "B", "C">>
LowerChars == <<"a", "b", "c">>

\* strings.ToLower(s)
ToLower(s) ==
    [i \in 1..Len(s) |->
        IF \E k \in 1..Len(UpperChars) : UpperChars[k] = s[i]
        THEN LowerChars[CHOOSE k \in 1..Len(UpperChars) : UpperChars[k] = s[i]]
        ELSE s[i]]

\* strings.TrimSpace(s)
RECURSIVE TrimSpace(_)
TrimSpace(s) ==
    IF s = <<>> THEN s
    ELSE IF s[1] = " " THEN TrimSpace(Tail(s))
         ELSE IF s[Len(s)] = " " THEN TrimSpace(SubSeq(s, 1, Len(s) - 1))
              ELSE s

\* slices.Contains(list, x)
SliceContains(list, x) == \E i \in 1..Len(list) : list[i] = x

\* the string "*"
Star == <<"*">>

(***************************************************************************)
(* CORS: configuration and origin matching                                 *)
(***************************************************************************)

\* DefaultCORSConfig()
DefaultCORSConfig ==
    [AllowedOrigins |-> <<Star>>,
     AllowedMethods |-> <<"GET", "POST", "PUT", "PATCH", "DELETE", "HEAD",
                          "OPTIONS">>,
     AllowedHeaders |-> <<Star>>,
     ExposedHeaders |-> <<>>,
     MaxAge |-> 0,
     AllowCredentials |-> FALSE,
     OptionsPassthrough |-> FALSE,
     Debug |-> FALSE]

\* the defaults CORS(config) fills in before it builds the middleware
WithDefaults(config) ==
    [config EXCEPT
        !.AllowedOrigins = IF Len(@) = 0 THEN <<Star>> ELSE @,
        !.AllowedMethods = IF Len(@) = 0 THEN <<"GET", "POST", "HEAD">> ELSE @]

\* position of the first "*" entry of the list, or one past its end: the
\* pre-compile loop breaks there
FirstStarEntry(origins) ==
    IF SliceContains(origins, Star)
    THEN CHOOSE i \in 1..Len(origins) :
             origins[i] = Star /\ \A j \in 1..(i - 1) : origins[j] # Star
    ELSE Len(origins) + 1

\* allowAllOrigins after the pre-compile loop
AllowAllOrigins(origins) == SliceContains(origins, Star)

\* newWildcardOrigin(pattern)
NewWildcardOrigin(pattern) ==
    LET parts == Split(pattern, "*")
    IN  IF Len(parts) # 2
        THEN [prefix |-> pattern, suffix |-> <<>>]
        ELSE [prefix |-> parts[1], suffix |-> parts[2]]

\* wildcardOrigins after the pre-compile loop: the entries before the first
\* "*" entry that contain a "*", compiled, in list order
WildcardOrigins(origins) ==
    LET seen == SubSeq(origins, 1, FirstStarEntry(origins) - 1)
        pats == SelectSeq(seen, LAMBDA o : Contains(o, "*"))
    IN  [i \in 1..Len(pats) |-> NewWildcardOrigin(pats[i])]

\* wildcardOrigin.match(origin)
WildcardMatch(w, origin) ==
    IF w.suffix = <<>> THEN origin = w.prefix
    ELSE HasPrefix(origin, w.prefix) /\ HasSuffix(origin, w.suffix)

\* isOriginAllowed(origin, allowedOrigins, wildcardOrigins, allowAll)
IsOriginAllowed(origin, allowedOrigins, wildcardOrigins, allowAll) ==
    IF allowAll THEN TRUE
    ELSE IF origin = <<>> THEN FALSE
    ELSE IF SliceContains(allowedOrigins, origin) THEN TRUE
    ELSE \E i \in 1..Len(wildcardOrigins) :
             WildcardMatch(wildcardOrigins[i], origin)

\* mutant: the allow-list is compared as it is written
FilterAllowedHeadersCaseSensitive(requested, allowed) ==
    IF requested = <<>> THEN <<>>
    ELSE LET parts == Split(requested, ",")
             requestedHeaders ==
                 [i \in 1..Len(parts) |-> TrimSpace(ToLower(parts[i]))]
             allowedAsWritten == {allowed[i] : i \in 1..Len(allowed)}
             result == SelectSeq(requestedHeaders,
                                 LAMBDA h : h \in allowedAsWritten)
         IN  Join(result)

\* filterAllowedHeaders(requested, allowed)
FilterAllowedHeaders(requested, allowed) ==
    IF requested = <<>> THEN <<>>
    ELSE LET parts == Split(requested, ",")
             requestedHeaders ==
                 [i \in 1..Len(parts) |-> TrimSpace(ToLower(parts[i]))]
             allowedLower == {ToLower(allowed[i]) : i \in 1..Len(allowed)}
             result == SelectSeq(requestedHeaders, LAMBDA h : h \in allowedLower)
         IN  Join(result)

(***************************************************************************)
(* CORS: the handler                                                       *)
(*                                                                         *)
(* corsReq is [method, origin, requestedHeaders]: r.Method and what        *)
(* r.Header.Get returns for Origin and Access-Control-Request-Headers (the *)
(* empty string when the header is absent).  corsResp is [pc, status,      *)
(* headers, next]: pc is "none" before a request, "next" while             *)
(* next.ServeHTTP runs and "done" when the handler has returned; status is *)
(* the code the CORS layer passed to WriteHeader, 0 if it wrote none;      *)
(* headers maps a header name to the list of values w.Header() holds for   *)
(* it; next counts the calls of next.ServeHTTP.                            *)
(***************************************************************************)

StatusForbidden == 403
StatusNoContent == 204
MethodOptions == "OPTIONS"

AccessControlHeaders ==
    {"Access-Control-Allow-Origin", "Access-Control-Allow-Credentials",
     "Access-Control-Allow-Methods", "Access-Control-Allow-Headers",
     "Access-Control-Max-Age", "Access-Control-Expose-Headers"}

HeaderNames == AccessControlHeaders \cup {"Vary", "X-CORS-Debug"}

\* w.Header() of a fresh response
NoHeaders == [n \in HeaderNames |-> <<>>]

\* w.Header().Set(name, value)
HeaderSet(headers, name, value) == [headers EXCEPT ![name] = <<value>>]

\* w.Header().Add(name, value)
HeaderAdd(headers, name, value) == [headers EXCEPT ![name] = Append(@, value)]

\* strconv.Itoa(n) for n >= 0
DecimalDigits == <<"0", "1", "2", "3", "4", "5", "6", "7", "8", "9">>
RECURSIVE Itoa(_)
Itoa(n) ==
    IF n < 10 THEN <<DecimalDigits[n + 1]>>
    ELSE Itoa(n \div 10) \o <<DecimalDigits[(n % 10) + 1]>>

CorsReqNone == [method |-> "", origin |-> <<>>, requestedHeaders |-> <<>>]
CorsRespNone == [pc |-> "none", status |-> 0, headers |-> NoHeaders, next |-> 0]

\* if allowAllOrigins && !config.AllowCredentials
StarOrigin(allowAllOrigins, config) ==
    allowAllOrigins /\ ~config.AllowCredentials

\* mutant: every request of a refused origin is answered 403
RejectsEveryMethod(method, config) == ~config.OptionsPassthrough

\* mutant: no request of a refused origin is answered 403
RejectsNoMethod(method, config) == FALSE

\* if r.Method == http.MethodOptions && !config.OptionsPassthrough (the
\* rejection of a preflight whose origin is not allowed)
RejectsPreflight(method, config) ==
    method = MethodOptions /\ ~config.OptionsPassthrough

\* mutant: a preflight is always handed to the inner handler
EndsPreflightNever(config) == FALSE

\* if !config.OptionsPassthrough (the end of a preflight whose origin is allowed)
EndsPreflight(config) == ~config.OptionsPassthrough

\* the headers set for a request whose origin is not allowed
RefusedHeaders(config, req) ==
    IF config.Debug
    THEN HeaderSet(NoHeaders, "X-CORS-Debug",
                   <<"Origin not allowed: ">> \o req.origin)
    ELSE NoHeaders

\* the Access-Control-Allow-Origin, Vary and Access-Control-Allow-Credentials
\* headers of a request whose origin is allowed
OriginHeaders(config, req, allowAllOrigins) ==
    LET h1 == IF StarOrigin(allowAllOrigins, config)
              THEN HeaderSet(NoHeaders, "Access-Control-Allow-Origin", Star)
              ELSE HeaderAdd(HeaderSet(NoHeaders, "Access-Control-Allow-Origin",
                                       req.origin),
                             "Vary", "Origin")
    IN  IF config.AllowCredentials
        THEN HeaderSet(h1, "Access-Control-Allow-Credentials", "true")
        ELSE h1

\* the headers the preflight branch adds to h
PreflightHeaders(config, req, h) ==
    LET allowAllHeaders == SliceContains(config.AllowedHeaders, Star)
        requestedHeaders == req.requestedHeaders
        allowed == FilterAllowedHeaders(requestedHeaders, config.AllowedHeaders)
        h1 == IF Len(config.AllowedMethods) > 0
              THEN HeaderSet(h, "Access-Control-Allow-Methods",
                             config.AllowedMethods)
              ELSE h
        h2 == IF allowAllHeaders \/ requestedHeaders = <<>>
              THEN HeaderSet(h1, "Access-Control-Allow-Headers", requestedHeaders)
              ELSE IF Len(config.AllowedHeaders) > 0 /\ allowed # <<>>
                   THEN HeaderSet(h1, "Access-Control-Allow-Headers", allowed)
                   ELSE h1
        h3 == IF config.MaxAge > 0
              THEN HeaderSet(h2, "Access-Control-Max-Age", Itoa(config.MaxAge))
              ELSE h2
    IN  IF config.Debug
        THEN HeaderSet(h3, "X-CORS-Debug", "Preflight response")
        ELSE h3

\* the headers the branch of actual requests adds to h
ActualHeaders(config, h) ==
    IF Len(config.ExposedHeaders) > 0
    THEN HeaderSet(h, "Access-Control-Expose-Headers", config.ExposedHeaders)
    ELSE h

\* the handler CORS(config)(next) serving req, up to its return or to its call
\* of next.ServeHTTP
CorsHandler(cfg, req) ==
    LET config == WithDefaults(cfg)
        allowAllOrigins == AllowAllOrigins(config.AllowedOrigins)
        wildcardOrigins == WildcardOrigins(config.AllowedOrigins)
    IN  IF ~IsOriginAllowed(req.origin, config.AllowedOrigins, wildcardOrigins,
                            allowAllOrigins)
        THEN IF RejectsPreflight(req.method, config)
             THEN [pc |-> "done", status |-> StatusForbidden,
                   headers |-> RefusedHeaders(config, req), next |-> 0]
             ELSE [pc |-> "next", status |-> 0,
                   headers |-> RefusedHeaders(config, req), next |-> 1]
        ELSE LET h == OriginHeaders(config, req, allowAllOrigins)
             IN  IF req.method = MethodOptions
                 THEN IF EndsPreflight(config)
                      THEN [pc |-> "done", status |-> StatusNoContent,
                            headers |-> PreflightHeaders(config, req, h),
                            next |-> 0]
                      ELSE [pc |-> "next", status |-> 0,
                            headers |-> PreflightHeaders(config, req, h),
                            next |-> 1]
                 ELSE [pc |-> "next", status |-> 0,
                       headers |-> ActualHeaders(config, h), next |-> 1]

\* the server passes a request to the handler
CorsServe(method, origin, requestedHeaders) ==
    /\ corsResp.pc = "none"
    /\ corsReq' = [method |-> method, origin |-> origin,
                   requestedHeaders |-> requestedHeaders]
    /\ corsResp' = CorsHandler(corsConfig, corsReq')
    /\ UNCHANGED <<corsConfig, thVars, rlVars, rtVars, tplVars, envState, gateOrder>>

\* next.ServeHTTP(w, r) returns and the handler returns after it
CorsNextReturn ==
    /\ corsResp.pc = "next"
    /\ corsResp' = [corsResp EXCEPT !.pc = "done"]
    /\ UNCHANGED <<corsConfig, corsReq, thVars, rlVars, rtVars, tplVars, envState, gateOrder>>

\* the response is sent; the handler is ready for another request
CorsDone ==
    /\ corsResp.pc = "done"
    /\ corsReq' = CorsReqNone
    /\ corsResp' = CorsRespNone
    /\ UNCHANGED <<corsConfig, thVars, rlVars, rtVars, tplVars, envState, gateOrder>>

(***************************************************************************)
(* CORS: inputs                                                            *)
(***************************************************************************)

\* origins and origin patterns
OriginHA == <<"h", "a">>
OriginHBA == <<"h", "b", "a">>
OriginHB == <<"h", "b">>
OriginH == <<"h">>
PatternMiddle == <<"h", "*", "a">>
PatternTail == <<"h", "*">>
PatternHead == <<"*", "a">>
PatternTwoStars == <<"h", "*", "*">>

AllowedOriginsLists ==
    {<<>>, <<Star>>, <<OriginHA>>, <<PatternMiddle>>, <<PatternTail>>,
     <<PatternHead>>, <<PatternTwoStars>>, <<OriginHB, PatternMiddle>>,
     <<PatternMiddle, Star>>}

RequestOrigins ==
    {<<>>, OriginHA, OriginHBA, OriginHB, OriginH, PatternTwoStars, Star}

AllowedMethodsLists == {<<>>, <<"GET", "OPTIONS">>}

\* header lists: "A, B", "b,A", "c"
RequestedHeadersValues ==
    {<<>>, <<"A", ",", " ", "B">>, <<"b", ",", "A">>, <<"c">>}

AllowedHeadersLists ==
    {<<>>, <<Star>>, <<<<"a">>>>, <<<<"B">>, <<"a">>>>}

ExposedHeadersLists == {<<>>, <<"X-Request-Id">>}

MaxAges == {-1, 0, 600}

CorsMethods == {MethodOptions, "GET"}

CorsConfigs ==
    [AllowedOrigins : AllowedOriginsLists,
     AllowedMethods : AllowedMethodsLists,
     AllowedHeaders : AllowedHeadersLists,
     ExposedHeaders : ExposedHeadersLists,
     MaxAge : MaxAges,
     AllowCredentials : BOOLEAN,
     OptionsPassthrough : BOOLEAN,
     Debug : BOOLEAN]

CorsNext ==
    \/ \E method \in CorsMethods, origin \in RequestOrigins,
          requestedHeaders \in RequestedHeadersValues :
              CorsServe(method, origin, requestedHeaders)
    \/ CorsNextReturn
    \/ CorsDone

(***************************************************************************)
(* Claims about CORS (checked under SpecCors)                              *)
(***************************************************************************)

\* the handler has acted on the request in corsReq
CorsServed == corsResp.pc # "none"

\* the decision of isOriginAllowed for the request in corsReq
CorsOriginAllowed ==
    LET config == WithDefaults(corsConfig)
    IN  IsOriginAllowed(corsReq.origin, config.AllowedOrigins,
                        WildcardOrigins(config.AllowedOrigins),
                        AllowAllOrigins(config.AllowedOrigins))

\* the wildcard-all sentinel is in effect ("*" listed, or no origin listed)
CorsWildcardAll == AllowAllOrigins(WithDefaults(corsConfig).AllowedOrigins)

\* w.Header().Get(name) on the response: the first value, "" if there is none
CorsHeaderGet(name) ==
    IF corsResp.headers[name] = <<>> THEN <<>> ELSE corsResp.headers[name][1]

NoAccessControlHeader ==
    \A n \in AccessControlHeaders : corsResp.headers[n] = <<>>

\* the request is a preflight and the configuration does not pass preflights on
CorsClosedPreflight ==
    corsReq.method = MethodOptions /\ ~corsConfig.OptionsPassthrough

\* C13 as stated: an OPTIONS request, OptionsPassthrough false, with the
\* Origin header absent or an origin that is not allowed, is answered 403 with
\* no Access-Control-* header and without a call of the inner handler.
C13_ForbiddenPreflightStated ==
    (/\ CorsServed
     /\ CorsClosedPreflight
     /\ (corsReq.origin = <<>> \/ ~CorsOriginAllowed))
        => /\ corsResp.status = StatusForbidden
           /\ NoAccessControlHeader
           /\ corsResp.next = 0

\* C13 amended: an OPTIONS request, OptionsPassthrough false, whose origin is
\* not allowed - an absent Origin header counting as not allowed only when the
\* wildcard-all sentinel is not in effect - is answered 403 with no
\* Access-Control-* header and without a call of the inner handler.
C13_ForbiddenPreflight ==
    (/\ CorsServed
     /\ CorsClosedPreflight
     /\ \/ corsReq.origin = <<>> /\ ~CorsWildcardAll
        \/ ~CorsOriginAllowed)
        => /\ corsResp.status = StatusForbidden
           /\ corsResp.pc = "done"
           /\ NoAccessControlHeader
           /\ corsResp.next = 0

\* C13 witness: a preflight without Origin header was answered 403 by a
\* configuration that lists origins and does not list "*"
C13_Witness ==
    /\ CorsServed
    /\ CorsClosedPreflight
    /\ corsReq.origin = <<>>
    /\ ~CorsWildcardAll
    /\ corsResp.status = StatusForbidden

\* C14 as stated: with the Origin header absent or an origin that is not
\* allowed, a request that is not a preflight rejected with 403 reaches the
\* inner handler exactly once and gets no Access-Control-* header.
C14_NoExposureStated ==
    (/\ CorsServed
     /\ (corsReq.origin = <<>> \/ ~CorsOriginAllowed)
     /\ corsResp.status # StatusForbidden)
        => /\ corsResp.next = 1
           /\ NoAccessControlHeader

\* C14 amended: with an origin that is not allowed - an absent Origin header
\* counting as not allowed only when the wildcard-all sentinel is not in
\* effect - a request that is not a preflight under OptionsPassthrough false
\* reaches the inner handler exactly once, the CORS layer writes no status and
\* sets no Access-Control-* header.
C14_NoExposure ==
    (/\ CorsServed
     /\ \/ corsReq.origin = <<>> /\ ~CorsWildcardAll
        \/ ~CorsOriginAllowed
     /\ ~CorsClosedPreflight)
        => /\ corsResp.next = 1
           /\ corsResp.status = 0
           /\ NoAccessControlHeader

\* C14 witness: a preflight from an origin that is not allowed was passed on
\* to the inner handler (OptionsPassthrough true), which has returned
C14_Witness ==
    /\ corsResp.pc = "done"
    /\ corsReq.method = MethodOptions
    /\ corsConfig.OptionsPassthrough
    /\ corsReq.origin # <<>>
    /\ ~CorsOriginAllowed
    /\ corsResp.next = 1

\* C15: for an allowed origin, Access-Control-Allow-Origin is "*" exactly
\* when the wildcard-all sentinel is in effect and AllowCredentials is false;
\* in every other allowed case it is the request's Origin value and
\* Vary: Origin is added; Access-Control-Allow-Credentials: true is set
\* exactly when AllowCredentials is true.
C15_AllowOriginRule ==
    (CorsServed /\ CorsOriginAllowed) =>
        /\ (corsResp.headers["Access-Control-Allow-Origin"] = <<Star>>)
               <=> (CorsWildcardAll /\ ~corsConfig.AllowCredentials)
        /\ ~(CorsWildcardAll /\ ~corsConfig.AllowCredentials) =>
               /\ corsResp.headers["Access-Control-Allow-Origin"]
                      = <<corsReq.origin>>
               /\ corsResp.headers["Vary"] = <<"Origin">>
        /\ (corsResp.headers["Access-Control-Allow-Credentials"] = <<"true">>)
               <=> corsConfig.AllowCredentials
        /\ ~corsConfig.AllowCredentials =>
               corsResp.headers["Access-Control-Allow-Credentials"] = <<>>

\* C24 (as claimed): for every configuration and every request, the response
\* never carries Access-Control-Allow-Origin: * together with
\* Access-Control-Allow-Credentials: true.
C24_NoStarWithCredentials ==
    CorsServed =>
        ~ /\ CorsHeaderGet("Access-Control-Allow-Origin") = Star
          /\ CorsHeaderGet("Access-Control-Allow-Credentials") = "true"

\* C16: an OPTIONS request from an allowed origin is answered 204 without a
\* call of the inner handler when OptionsPassthrough is false, and is passed
\* to the inner handler exactly once, the preflight headers already set, when
\* OptionsPassthrough is true.  Access-Control-Max-Age is set only on an
\* OPTIONS request from an allowed origin and only when MaxAge > 0 (and then
\* it is set, to the decimal form of MaxAge), and
\* Access-Control-Expose-Headers is never set on an OPTIONS request.
C16_PreflightTermination ==
    CorsServed =>
        /\ (corsReq.method = MethodOptions /\ CorsOriginAllowed) =>
              /\ corsResp.headers["Access-Control-Allow-Origin"] # <<>>
              /\ corsResp.headers["Access-Control-Allow-Methods"]
                     = <<WithDefaults(corsConfig).AllowedMethods>>
              /\ IF corsConfig.OptionsPassthrough
                 THEN corsResp.next = 1 /\ corsResp.status = 0
                 ELSE /\ corsResp.next = 0
                      /\ corsResp.status = StatusNoContent
                      /\ corsResp.pc = "done"
        /\ (corsResp.headers["Access-Control-Max-Age"] # <<>>)
               <=> /\ corsReq.method = MethodOptions
                   /\ CorsOriginAllowed
                   /\ corsConfig.MaxAge > 0
        /\ corsConfig.MaxAge = 600 =>
              corsResp.headers["Access-Control-Max-Age"]
                  \in {<<>>, <<(<<"6", "0", "0">>)>>}
        /\ corsReq.method = MethodOptions =>
              corsResp.headers["Access-Control-Expose-Headers"] = <<>>

\* C16 witness: a preflight from an allowed origin is in the inner handler
\* (OptionsPassthrough true) with Access-Control-Max-Age already set
C16_Witness ==
    /\ corsResp.pc = "next"
    /\ corsReq.method = MethodOptions
    /\ corsReq.origin # <<>>
    /\ CorsOriginAllowed
    /\ corsConfig.OptionsPassthrough
    /\ corsResp.headers["Access-Control-Max-Age"] # <<>>
    /\ corsConfig.ExposedHeaders # <<>>

\* the requested header names: the pieces of the Access-Control-Request-Headers
\* value between commas, without the spaces around them, lower-cased
RequestedNamesLower ==
    LET parts == Split(corsReq.requestedHeaders, ",")
    IN  [i \in 1..Len(parts) |-> ToLower(TrimSpace(parts[i]))]

\* the requested names that the allow-list holds, compared without case
RequestedNamesAllowed ==
    SelectSeq(RequestedNamesLower,
              LAMBDA h : \E i \in 1..Len(corsConfig.AllowedHeaders) :
                             ToLower(corsConfig.AllowedHeaders[i]) = h)

CorsTreatedAsAllowed == corsResp.headers["Access-Control-Allow-Origin"] # <<>>

\* the origin starts with what the pattern has before its "*" and ends with
\* what it has after it, for a pattern with exactly one "*"
OneStarPatternAccepts(pattern, origin) ==
    /\ Cardinality({i \in 1..Len(pattern) : pattern[i] = "*"}) = 1
    /\ LET i == CHOOSE k \in 1..Len(pattern) : pattern[k] = "*"
       IN  /\ HasPrefix(origin, SubSeq(pattern, 1, i - 1))
           /\ HasSuffix(origin, SubSeq(pattern, i + 1, Len(pattern)))

\* C18: when the wildcard-all sentinel is not in effect, an origin is allowed
\* iff it is not empty and either equals a configured entry (the only way a
\* pattern with several "*" matches) or is accepted by a configured pattern
\* with exactly one "*", wherever the "*" stands; with wildcard-all in effect
\* every non-empty origin is allowed.
C18_OriginMatching ==
    CorsServed =>
        LET entries == WithDefaults(corsConfig).AllowedOrigins
        IN  IF CorsWildcardAll
            THEN corsReq.origin # <<>> => CorsTreatedAsAllowed
            ELSE CorsTreatedAsAllowed <=>
                    /\ corsReq.origin # <<>>
                    /\ \E i \in 1..Len(entries) :
                          \/ entries[i] = corsReq.origin
                          \/ OneStarPatternAccepts(entries[i], corsReq.origin)

(***************************************************************************)
(* One template: Handle compiles it, the stored pattern is run on a path   *)
(***************************************************************************)

\* templates with characters that the regular expression syntax gives a
\* meaning to: "/u.x" and "/(u)/{i}"
TplDot == <<"/", "u", ".", "x">>
TplParens == <<"/", "(", "u", ")", "/", "{", "i", "}">>
TemplateInputs == Templates \cup {TplDot, TplParens}

\* request paths: "/" followed by up to MaxPathLen characters
PathChars == {"/", "u", "x", "4", "."}
PathInputs ==
    {<<"/">> \o tail :
        tail \in UNION {[1..n -> PathChars] : n \in 0..MaxPathLen}}

\* r.Handle(method, tplTemplate, handler) on a router without middleware: the
\* Route value it stores
TplHandle ==
    /\ tplPc = "template"
    /\ tplRoute' = NewRoute(<<>>, tplTemplate, [t |-> 1, on |-> 0])
    /\ tplPc' = "compiled"
    /\ UNCHANGED <<tplTemplate, tplPath, tplMatch, thVars, rlVars, rtVars,
                   corsVars, envState, gateOrder>>

\* route.ParamPattern.MatchString(path) / FindStringSubmatch(path)
TplFindStringSubmatch ==
    /\ tplPc = "compiled"
    /\ tplMatch' = Submatch(tplRoute.ParamPattern, tplPath)
    /\ tplPc' = "matched"
    /\ UNCHANGED <<tplTemplate, tplPath, tplRoute, thVars, rlVars, rtVars,
                   corsVars, envState, gateOrder>>

TemplateNext ==
    \/ TplHandle
    \/ TplFindStringSubmatch

\* C19: the anchored pattern Handle compiles from a template accepts a path
\* iff the path is the template with every {name} placeholder replaced by one
\* or more characters other than "/", every other character of the template
\* standing for itself.
C19_TemplateFullMatch ==
    tplPc = "matched" =>
        (tplMatch.ok <=> Instantiates(tplTemplate, tplPath))

\* C20: in every Route that Handle stores, the number of names in ParamKeys is
\* the number of capture groups of ParamPattern.
C20_KeysEqualGroups ==
    tplPc # "template" =>
        Len(tplRoute.ParamKeys) = NumSubexp(tplRoute.ParamPattern)

(***************************************************************************)
(* EnvVarChecker (src/middleware/envvar.go:12-41, src/unnamed/part_001)    *)
(***************************************************************************)
\* the repository holds two sources of EnvVarChecker in package middleware
EnvVersions == {"envvar.go", "part_001"}
EnvVersionNone == ""

\* names of environment variables and the values os.Getenv returns for them
\* ("" for a variable that is unset or set to the empty string)
EnvNames == {"API_KEY", "DB_URL", "PORT"}
EnvValues == {"", "v"}
EnvironEmpty == [v \in EnvNames |-> ""]
Environs == [EnvNames -> EnvValues]

\* the argument lists of EnvVarChecker(envVars...)
EnvVarsLists ==
    UNION {[1..n -> EnvNames] : n \in 0..MaxEnvVars}

StatusInternalServerError == 500

\* what the handler did with the request: pc "idle" (not called), "next"
\* (inside next.ServeHTTP), "done" (returned); status 0 while WriteHeader was
\* not called; body the pieces written with w.Write; next the number of calls
\* of next.ServeHTTP; ctx the value of envvar_error in the request passed on
EnvRespNone ==
    [pc |-> "idle", status |-> 0, body |-> <<>>, next |-> 0, ctx |-> <<>>]

\* for _, v := range envVars { if os.Getenv(v) == "" { missing = append(missing, v) } }
Missing(list, env) == SelectSeq(list, LAMBDA v : env[v] = "")

\* joinStrings(strs, sep): result := strs[0]; for the rest result += sep + s
RECURSIVE JoinStringsFrom(_, _, _)
JoinStringsFrom(result, rest, sep) ==
    IF rest = <<>> THEN result
    ELSE JoinStringsFrom(result \o <<sep, Head(rest)>>, Tail(rest), sep)

JoinStrings(strs, sep) ==
    IF Len(strs) = 0 THEN <<>>
    ELSE JoinStringsFrom(<<Head(strs)>>, Tail(strs), sep)

\* "Missing required environment variables: " and the bracketed list, as the
\* sequence of the pieces concatenated
ErrPrefix == "Missing required environment variables: "
ErrMsg(missing) == <<ErrPrefix, "[">> \o JoinStrings(missing, ", ") \o <<"]">>

\* the handler of src/unnamed/part_001 up to its return or its call of next
EnvVarCheckerReturns ==
    /\ envResp.pc = "idle"
    /\ LET missing == Missing(envVars, environ)
       IN  IF Len(missing) > 0
           THEN envResp' = [pc |-> "done",
                            status |-> StatusInternalServerError,
                            body |-> <<ErrPrefix>> \o
                                     (<<"[">> \o JoinStrings(missing, ", ")
                                      \o <<"]">>),
                            next |-> 0, ctx |-> <<>>]
           ELSE envResp' = [envResp EXCEPT !.pc = "next", !.next = @ + 1]
    /\ UNCHANGED <<envVersion, envVars, environ, thVars, rlVars, rtVars,
                   corsVars, tplVars, gateOrder>>

\* the handler of src/middleware/envvar.go up to its call of next
EnvVarCheckerCallsNext ==
    /\ envResp.pc = "idle"
    /\ LET missing == Missing(envVars, environ)
       IN  IF Len(missing) > 0
           THEN envResp' = [pc |-> "next",
                            status |-> StatusInternalServerError,
                            body |-> ErrMsg(missing),
                            next |-> envResp.next + 1,
                            ctx |-> ErrMsg(missing)]
           ELSE envResp' = [envResp EXCEPT !.pc = "next", !.next = @ + 1]
    /\ UNCHANGED <<envVersion, envVars, environ, thVars, rlVars, rtVars,
                   corsVars, tplVars, gateOrder>>

\* the handler EnvVarChecker(envVars...)(next) serves a request
EnvVarChecker ==
    IF envVersion = "part_001" THEN EnvVarCheckerReturns
    ELSE EnvVarCheckerCallsNext

\* next.ServeHTTP returns, and the handler returns after it
EnvNextReturn ==
    /\ envResp.pc = "next"
    /\ envResp' = [envResp EXCEPT !.pc = "done"]
    /\ UNCHANGED <<envVersion, envVars, environ, thVars, rlVars, rtVars,
                   corsVars, tplVars, gateOrder>>

EnvNext ==
    \/ EnvVarChecker
    \/ EnvNextReturn

\* the pieces of the body that are variable names
EnvNamesWritten == {envResp.body[i] : i \in 1..Len(envResp.body)} \cap EnvNames

\* C22 (as claimed): when at least one required variable is empty the
\* middleware answers 500 with a message listing exactly the missing
\* variables and never invokes next; when all are set it invokes next exactly
\* once and writes nothing itself.
C22_EnvGate ==
    envResp.pc # "idle" =>
        LET missing == Missing(envVars, environ)
        IN  IF Len(missing) > 0
            THEN /\ envResp.status = StatusInternalServerError
                 /\ EnvNamesWritten = {missing[i] : i \in 1..Len(missing)}
                 /\ envResp.next = 0
            ELSE /\ envResp.next = 1
                 /\ envResp.status = 0
                 /\ envResp.body = <<>>

(***************************************************************************)
(* RateLimiter and Throttle wrapped around one route                       *)
(***************************************************************************)
\* r.Use(middleware.RateLimiter); r.Use(middleware.Throttle(limit)) makes
\* RateLimiter the outer layer; the two Use calls swapped make Throttle the
\* outer layer
GateOrders == {"rateOutside", "throttleOutside"}
GateOrderNone == "none"

\* the one route both middlewares wrap, and the requests sent to it
GateRoute == 1
GateRequests == 1..MaxGateRequests

\* how far the clock may have advanced between two readings of time.Now():
\* not at all, or one second
GateDeltas == {0, Second}

\* the server dispatches request r to the route: the handler of the outer
\* middleware starts
GateArrive(r, ip) ==
    IF gateOrder = "rateOutside" THEN RlArrive(r, GateRoute, ip)
    ELSE ClientIndex(ip) = 1 /\ ThArrive(r, GateRoute)

\* RateLimiter is the outer layer: its next.ServeHTTP(w, r) is the Throttle
\* handler, which starts with the send on sem
RateCallsThrottle(r) ==
    /\ gateOrder = "rateOutside"
    /\ rlPc[r] = "next"
    /\ thPc[r] = "idle"
    /\ thPc' = [thPc EXCEPT ![r] = "send"]
    /\ thRoute' = [thRoute EXCEPT ![r] = GateRoute]
    /\ UNCHANGED <<limit, sem, rlVars, rtVars, corsVars, tplVars, envState, gateOrder>>

\* Throttle is the outer layer: its next.ServeHTTP(w, r) is the RateLimiter
\* handler, which starts with clientIP := r.RemoteAddr and mu.Lock()
ThrottleCallsRate(r, ip) ==
    /\ gateOrder = "throttleOutside"
    /\ thPc[r] = "next"
    /\ rlPc[r] = "idle"
    /\ ClientIndex(ip) <=
         MaxOf({ClientIndex(rlClientIP[q]) : q \in {x \in Requests : rlPc[x] # "idle"}}) + 1
    /\ rlPc' = [rlPc EXCEPT ![r] = "lock"]
    /\ rlRoute' = [rlRoute EXCEPT ![r] = GateRoute]
    /\ rlClientIP' = [rlClientIP EXCEPT ![r] = ip]
    /\ UNCHANGED <<clock, lastRequestTime, mu, rlNow, thVars, rtVars, corsVars, tplVars, envState, gateOrder>>

\* the business handler, the next of the inner middleware, returns
GateHandlerReturn(r) ==
    IF gateOrder = "rateOutside" THEN ThNextReturn(r) ELSE RlNextReturn(r)

\* the handler of the inner middleware has returned (for RateLimiter also
\* with 429): the next.ServeHTTP(w, r) of the outer middleware returns
GateInnerReturn(r) ==
    IF gateOrder = "rateOutside"
    THEN thPc[r] = "returned" /\ RlNextReturn(r)
    ELSE rlPc[r] \in {"returned", "rejected429"} /\ ThNextReturn(r)

\* the steps of request r after its arrival
GateStep(r) ==
    \/ RlLock(r)
    \/ \E d \in GateDeltas : RlCheck(r, clock + d)
    \/ ThAcquire(r)
    \/ RateCallsThrottle(r)
    \/ \E ip \in ClientIPs : ThrottleCallsRate(r, ip)
    \/ GateHandlerReturn(r)
    \/ GateInnerReturn(r)
    \/ ThRelease(r)

GateNext ==
    \E r \in GateRequests :
        \/ \E ip \in ClientIPs : GateArrive(r, ip)
        \/ GateStep(r)

\* Scheduling: a goroutine that can run does run, and the business handlers
\* return.  A request has at most one kind of step enabled at a time.  The
\* runtime serves blocked senders first in first out and hands a starved
\* mutex waiter the lock, which would justify strong fairness of ThAcquire
\* and RlLock; weak fairness of the steps of each request is assumed here.
GateFairness == \A r \in GateRequests : WF_vars(GateStep(r))

\* request r has been dispatched / its outer handler has returned
GateArrived(r) ==
    IF gateOrder = "rateOutside" THEN rlPc[r] # "idle" ELSE thPc[r] # "idle"

GateCompleted(r) ==
    IF gateOrder = "rateOutside" THEN rlPc[r] \in {"returned", "rejected429"}
    ELSE thPc[r] = "returned"

\* request r ran the business handler / was answered 429
GateHandlerRan(r) ==
    IF gateOrder = "rateOutside" THEN thPc[r] = "returned"
    ELSE rlPc[r] = "returned"

GateRejected(r) == rlPc[r] = "rejected429"

\* C26: no deadlock between the two gates.  On a route wrapped by RateLimiter
\* and Throttle(limit), limit >= 1, in either nesting order, under fair
\* scheduling and with business handlers that return, every dispatched
\* request eventually completes, having run the business handler or having
\* been answered 429, and whenever the lock or a slot is taken the lock and
\* all slots are eventually free again.
C26_NoGateDeadlock ==
    /\ \A r \in GateRequests :
          GateArrived(r) ~>
              (GateCompleted(r) /\ (GateHandlerRan(r) \/ GateRejected(r)))
    /\ (mu[GateRoute] # 0 \/ sem > 0) ~> (mu[GateRoute] = 0 /\ sem = 0)

\* C26 witness: with Throttle outside, a request holds a slot and waits for
\* the lock, which another request holds inside the business handler while
\* holding a slot of its own
C26_Witness ==
    /\ gateOrder = "throttleOutside"
    /\ sem = 2
    /\ \E h, w \in GateRequests :
          /\ rlPc[h] = "next" /\ mu[GateRoute] = h /\ thPc[h] = "next"
          /\ thPc[w] = "next" /\ rlPc[w] = "lock"

(***************************************************************************)
(* Specifications                                                          *)
(***************************************************************************)
ThrottleInit ==
    /\ limit \in 0..MaxLimit
    /\ sem = 0
    /\ thPc = ThPcIdle
    /\ thRoute = ThRouteNone
    /\ clock = 0
    /\ lastRequestTime = LastRequestTimeEmpty
    /\ mu = MuUnlocked
    /\ rlPc = RlPcIdle
    /\ rlRoute = RlRouteNone
    /\ rlClientIP = RlClientIPNone
    /\ rlNow = RlNowNone
    /\ routers = RoutersInit
    /\ calls = CallsNone
    /\ resp = RespNone
    /\ handleLog = HandleLogEmpty
    /\ corsConfig = DefaultCORSConfig
    /\ corsReq = CorsReqNone
    /\ corsResp = CorsRespNone
    /\ tplTemplate = <<>>
    /\ tplPath = <<>>
    /\ tplPc = "template"
    /\ tplRoute = <<>>
    /\ tplMatch = NoMatch
    /\ envVersion = EnvVersionNone
    /\ envVars = <<>>
    /\ environ = EnvironEmpty
    /\ envResp = EnvRespNone
    /\ gateOrder = GateOrderNone

SpecThrottle == ThrottleInit /\ [][ThrottleNext]_vars

SpecThrottleLive ==
    ThrottleInit /\ [][ThrottleLiveNext]_vars /\ ThrottleFairness

RateInit ==
    /\ limit = 0
    /\ sem = 0
    /\ thPc = ThPcIdle
    /\ thRoute = ThRouteNone
    /\ clock = 0
    /\ lastRequestTime = LastRequestTimeEmpty
    /\ mu = MuUnlocked
    /\ rlPc = RlPcIdle
    /\ rlRoute = RlRouteNone
    /\ rlClientIP = RlClientIPNone
    /\ rlNow = RlNowNone
    /\ routers = RoutersInit
    /\ calls = CallsNone
    /\ resp = RespNone
    /\ handleLog = HandleLogEmpty
    /\ corsConfig = DefaultCORSConfig
    /\ corsReq = CorsReqNone
    /\ corsResp = CorsRespNone
    /\ tplTemplate = <<>>
    /\ tplPath = <<>>
    /\ tplPc = "template"
    /\ tplRoute = <<>>
    /\ tplMatch = NoMatch
    /\ envVersion = EnvVersionNone
    /\ envVars = <<>>
    /\ environ = EnvironEmpty
    /\ envResp = EnvRespNone
    /\ gateOrder = GateOrderNone

SpecRate == RateInit /\ [][RateNext]_vars

SpecRateInstance == RateInit /\ [][RateInstanceNext]_vars

RouterInit ==
    /\ limit = 0
    /\ sem = 0
    /\ thPc = ThPcIdle
    /\ thRoute = ThRouteNone
    /\ clock = 0
    /\ lastRequestTime = LastRequestTimeEmpty
    /\ mu = MuUnlocked
    /\ rlPc = RlPcIdle
    /\ rlRoute = RlRouteNone
    /\ rlClientIP = RlClientIPNone
    /\ rlNow = RlNowNone
    /\ routers = RoutersInit
    /\ calls = CallsNone
    /\ resp = RespNone
    /\ handleLog = HandleLogEmpty
    /\ corsConfig = DefaultCORSConfig
    /\ corsReq = CorsReqNone
    /\ corsResp = CorsRespNone
    /\ tplTemplate = <<>>
    /\ tplPath = <<>>
    /\ tplPc = "template"
    /\ tplRoute = <<>>
    /\ tplMatch = NoMatch
    /\ envVersion = EnvVersionNone
    /\ envVars = <<>>
    /\ environ = EnvironEmpty
    /\ envResp = EnvRespNone
    /\ gateOrder = GateOrderNone

SpecChain == RouterInit /\ [][ChainNext]_vars

SpecMatch == RouterInit /\ [][MatchNext]_vars

CorsInit ==
    /\ limit = 0
    /\ sem = 0
    /\ thPc = ThPcIdle
    /\ thRoute = ThRouteNone
    /\ clock = 0
    /\ lastRequestTime = LastRequestTimeEmpty
    /\ mu = MuUnlocked
    /\ rlPc = RlPcIdle
    /\ rlRoute = RlRouteNone
    /\ rlClientIP = RlClientIPNone
    /\ rlNow = RlNowNone
    /\ routers = RoutersInit
    /\ calls = CallsNone
    /\ resp = RespNone
    /\ handleLog = HandleLogEmpty
    /\ corsConfig \in CorsConfigs
    /\ corsReq = CorsReqNone
    /\ corsResp = CorsRespNone
    /\ tplTemplate = <<>>
    /\ tplPath = <<>>
    /\ tplPc = "template"
    /\ tplRoute = <<>>
    /\ tplMatch = NoMatch
    /\ envVersion = EnvVersionNone
    /\ envVars = <<>>
    /\ environ = EnvironEmpty
    /\ envResp = EnvRespNone
    /\ gateOrder = GateOrderNone

SpecCors == CorsInit /\ [][CorsNext]_vars

TemplateInit ==
    /\ limit = 0
    /\ sem = 0
    /\ thPc = ThPcIdle
    /\ thRoute = ThRouteNone
    /\ clock = 0
    /\ lastRequestTime = LastRequestTimeEmpty
    /\ mu = MuUnlocked
    /\ rlPc = RlPcIdle
    /\ rlRoute = RlRouteNone
    /\ rlClientIP = RlClientIPNone
    /\ rlNow = RlNowNone
    /\ routers = RoutersInit
    /\ calls = CallsNone
    /\ resp = RespNone
    /\ handleLog = HandleLogEmpty
    /\ corsConfig = DefaultCORSConfig
    /\ corsReq = CorsReqNone
    /\ corsResp = CorsRespNone
    /\ tplTemplate \in TemplateInputs
    /\ tplPath \in PathInputs
    /\ tplPc = "template"
    /\ tplRoute = <<>>
    /\ tplMatch = NoMatch
    /\ envVersion = EnvVersionNone
    /\ envVars = <<>>
    /\ environ = EnvironEmpty
    /\ envResp = EnvRespNone
    /\ gateOrder = GateOrderNone

SpecTemplate == TemplateInit /\ [][TemplateNext]_vars

EnvInit ==
    /\ limit = 0
    /\ sem = 0
    /\ thPc = ThPcIdle
    /\ thRoute = ThRouteNone
    /\ clock = 0
    /\ lastRequestTime = LastRequestTimeEmpty
    /\ mu = MuUnlocked
    /\ rlPc = RlPcIdle
    /\ rlRoute = RlRouteNone
    /\ rlClientIP = RlClientIPNone
    /\ rlNow = RlNowNone
    /\ routers = RoutersInit
    /\ calls = CallsNone
    /\ resp = RespNone
    /\ handleLog = HandleLogEmpty
    /\ corsConfig = DefaultCORSConfig
    /\ corsReq = CorsReqNone
    /\ corsResp = CorsRespNone
    /\ tplTemplate = <<>>
    /\ tplPath = <<>>
    /\ tplPc = "template"
    /\ tplRoute = <<>>
    /\ tplMatch = NoMatch
    /\ envVersion \in EnvVersions
    /\ envVars \in EnvVarsLists
    /\ environ \in Environs
    /\ envResp = EnvRespNone
    /\ gateOrder = GateOrderNone

SpecEnv == EnvInit /\ [][EnvNext]_vars

GateInit ==
    /\ limit \in 1..MaxLimit
    /\ sem = 0
    /\ thPc = ThPcIdle
    /\ thRoute = ThRouteNone
    /\ clock = 0
    /\ lastRequestTime = LastRequestTimeEmpty
    /\ mu = MuUnlocked
    /\ rlPc = RlPcIdle
    /\ rlRoute = RlRouteNone
    /\ rlClientIP = RlClientIPNone
    /\ rlNow = RlNowNone
    /\ routers = RoutersInit
    /\ calls = CallsNone
    /\ resp = RespNone
    /\ handleLog = HandleLogEmpty
    /\ corsConfig = DefaultCORSConfig
    /\ corsReq = CorsReqNone
    /\ corsResp = CorsRespNone
    /\ tplTemplate = <<>>
    /\ tplPath = <<>>
    /\ tplPc = "template"
    /\ tplRoute = <<>>
    /\ tplMatch = NoMatch
    /\ envVersion = EnvVersionNone
    /\ envVars = <<>>
    /\ environ = EnvironEmpty
    /\ envResp = EnvRespNone
    /\ gateOrder \in GateOrders

SpecGates == GateInit /\ [][GateNext]_vars /\ GateFairness

====
